---- MODULE Spec2Model ----
(***************************************************************************)
(* Model of the data-access core of ts-serverless: the Entity envelope     *)
(* (src/lib/base/entity.ts), the BaseRepository policy facade              *)
(* (src/lib/base/repository.ts) and the BaseService orchestration facade   *)
(* (src/lib/base/service.ts).                                              *)
(*                                                                         *)
(* and the pure helpers around them: pagination                            *)
(* (src/lib/query/pagination.ts) and the error taxonomy with its handler   *)
(* (src/lib/errors, src/lib/utils/response.ts).                            *)
(*                                                                         *)
(* The specifications share the variables:                                 *)
(*   SpecEntity - one Entity object under its mutating methods;            *)
(*   SpecClone  - an Entity object and its clone();                        *)
(*   Spec       - one repository/service pair under its public methods;    *)
(*   SpecPaging - the PaginationHelper functions on supplied inputs;       *)
(*   SpecErrors - the error constructors and the error handler;            *)
(*   SpecFilters - one FilterBuilder and the andFilters/orFilters          *)
(*                combinators;                                             *)
(*   SpecRetry  - one call of retry(fn, options), step by step, with       *)
(*                every attempt settling and every sleep resolving;        *)
(*   SpecListing - list() reading a storage beside concurrent writers;     *)
(*   SpecManager - one MigrationManager and its _migrations table.         *)
(***************************************************************************)
EXTENDS Integers, Sequences, FiniteSets, TLC

VARIABLES
    entity,     \* the fields of one Entity instance
    now,        \* the wall clock read by `new Date()`
    nMut,       \* number of mutating Entity methods called since construction
    explicitVersion, \* TRUE iff the constructor was given a (truthy) version
    hist,       \* the last two Entity method calls with their pre-states
    config,     \* RepositoryConfig / ServiceConfig fixed at construction
    call,       \* the public repository/service method called last, its arguments
    run,        \* what that call did: event log, raised failure, returned value
    pair,       \* an Entity, its clone() and the metadata objects they refer to
    paging,     \* the PaginationHelper function called last, its inputs and result
    handled,    \* the failure handled last and what the handler made of it
    builder,    \* one FilterBuilder and the criteria its build() calls returned
    combined,   \* the andFilters / orFilters call made last and its result
    retrying,   \* one call of retry(fn, options): its locals and what it did so far
    listing,    \* a storage, one list() call reading it and the writes beside it
    manager     \* one MigrationManager, its _migrations table and its last call

entityVars == <<entity, now, nMut, explicitVersion, hist>>
callVars == <<config, call, run>>
helperVars == <<paging, handled>>
filterVars == <<builder, combined>>
toolVars == <<filterVars, retrying, listing, manager>>
coreVars == <<entityVars, callVars, pair, helperVars>>
vars == <<entity, now, nMut, explicitVersion, hist, config, call, run, pair,
          paging, handled, builder, combined, retrying, listing, manager>>

----------------------------------------------------------------------------
(* Bounds *)

MaxTime == 2          \* clock values 1..MaxTime
MaxMutations == 4     \* mutating Entity calls per behaviour
MaxVersionArg == 2    \* largest explicit version handed to the constructor
MaxResults == 2       \* longest entity list a storage primitive returns
MaxTotal == 3         \* largest count a storage primitive returns

----------------------------------------------------------------------------
(* Entity: src/lib/base/entity.ts *)

\* 0 stands for `undefined` in a Date-valued field, "" in an id-valued field.
\* -1 stands for `null` in a Date-valued field.
Undefined == 0
Null == -1
NoId == ""

SuppliedIds == {"e1"}
GeneratedIds == {"n1", "n2"}       \* results of nanoid()
UserIds == {"u1"}
MetaKeys == {"k1"}
MetaVals == {"a", "b"}

Times == 1..MaxTime
Later(t) == {u \in Times : u >= t}

\* A metadata map is a function from a subset of the keys to values.
EmptyMeta == [k \in {} |-> "a"]

\* constructor(data): every `x || default` of lines 26-33.
NewEntity(data, nano, t1, t2) ==
    [ id        |-> IF data.id # NoId THEN data.id ELSE nano,
      createdAt |-> IF data.createdAt # Undefined THEN data.createdAt ELSE t1,
      updatedAt |-> IF data.updatedAt # Undefined THEN data.updatedAt ELSE t2,
      createdBy |-> data.createdBy,
      updatedBy |-> data.updatedBy,
      version   |-> IF data.version # 0 THEN data.version ELSE 1,
      deletedAt |-> data.deletedAt,
      hasMetadata |-> TRUE,
      metadata  |-> IF data.hasMetadata THEN data.metadata ELSE EmptyMeta ]

\* Partial<BaseEntity> values handed to the constructor.
ConstructorData ==
    [ id : {NoId} \cup SuppliedIds,
      createdAt : {Undefined, 1},
      updatedAt : {Undefined},
      createdBy : {NoId},
      updatedBy : {NoId, "u1"},
      version : 0..MaxVersionArg,
      deletedAt : {Undefined, Null, 1},
      hasMetadata : BOOLEAN,
      metadata : {EmptyMeta, [k \in {"k1"} |-> "a"]} ]

\* Faulty variant of isDeleted: a null deletedAt counts as deleted.
isDeletedUnlessUndefined(e) == e.deletedAt # Undefined

isDeleted(e) == e.deletedAt # Undefined /\ e.deletedAt # Null

\* Faulty variant of markAsUpdated: the version is left as it is.
markAsUpdatedNoBump(e, userId, t) ==
    [e EXCEPT !.updatedAt = t,
              !.updatedBy = IF userId # NoId THEN userId ELSE @]

markAsUpdated(e, userId, t) ==
    [e EXCEPT !.updatedAt = t,
              !.updatedBy = IF userId # NoId THEN userId ELSE @,
              !.version = @ + 1]

softDelete(e, userId, t1, t2) ==
    markAsUpdated([e EXCEPT !.deletedAt = t1, !.updatedBy = userId], NoId, t2)

\* Faulty variant of restore: deletedAt is not cleared.
restoreKeepDeleted(e, userId, t) ==
    markAsUpdated([e EXCEPT !.updatedBy = userId], NoId, t)

restore(e, userId, t) ==
    markAsUpdated([e EXCEPT !.deletedAt = Undefined, !.updatedBy = userId], NoId, t)

MetaPut(m, key, v) ==
    [k \in (DOMAIN m) \cup {key} |-> IF k = key THEN v ELSE m[k]]

MetaDel(m, key) ==
    [k \in (DOMAIN m) \ {key} |-> m[k]]

addMetadata(e, key, v, t) ==
    LET e1 == IF ~e.hasMetadata
              THEN [e EXCEPT !.hasMetadata = TRUE, !.metadata = EmptyMeta]
              ELSE e
    IN markAsUpdated([e1 EXCEPT !.metadata = MetaPut(@, key, v)], NoId, t)

removeMetadata(e, key, t) ==
    IF e.hasMetadata
    THEN markAsUpdated([e EXCEPT !.metadata = MetaDel(@, key)], NoId, t)
    ELSE e

\* The last two method calls, newest last, each with the identity, version and
\* deletion marker the entity had before it.
Snapshot(op, pre) ==
    [id |-> pre.id, version |-> pre.version, deletedAt |-> pre.deletedAt, op |-> op]

Remember(op, pre) ==
    IF Len(hist) < 2 THEN Append(hist, Snapshot(op, pre))
    ELSE <<hist[2], Snapshot(op, pre)>>

Mutate(op, e2, t) ==
    /\ nMut < MaxMutations
    /\ entity' = e2
    /\ now' = t
    /\ nMut' = nMut + 1
    /\ hist' = Remember(op, entity)
    /\ UNCHANGED <<explicitVersion, callVars, pair, helperVars, toolVars>>

EntitySoftDelete ==
    \E u \in {NoId} \cup UserIds, t1 \in Later(now) : \E t2 \in Later(t1) :
        Mutate("softDelete", softDelete(entity, u, t1, t2), t2)

EntityRestore ==
    \E u \in {NoId} \cup UserIds, t \in Later(now) :
        Mutate("restore", restore(entity, u, t), t)

EntityMarkAsUpdated ==
    \E u \in {NoId} \cup UserIds, t \in Later(now) :
        Mutate("markAsUpdated", markAsUpdated(entity, u, t), t)

EntityAddMetadata ==
    \E k \in MetaKeys, v \in MetaVals, t \in Later(now) :
        Mutate("addMetadata", addMetadata(entity, k, v, t), t)

EntityRemoveMetadata ==
    \E k \in MetaKeys, t \in Later(now) :
        Mutate("removeMetadata", removeMetadata(entity, k, t), t)

----------------------------------------------------------------------------
(* Claims about the Entity envelope, checked under SpecEntity *)

\* C1: an entity constructed without an explicit version has version 1 + N
\* after N mutating calls (softDelete, restore, markAsUpdated, addMetadata,
\* removeMetadata), and every mutating call leaves the version strictly above
\* the version before it: it never decreases or resets.
C1_VersionCountsMutations ==
    /\ ~explicitVersion => entity.version = 1 + nMut
    /\ Len(hist) >= 1 => entity.version > hist[Len(hist)].version
    /\ Len(hist) = 2 => hist[2].version > hist[1].version

C1_Witness ==
    /\ ~explicitVersion
    /\ nMut >= 3
    /\ Len(hist) = 2
    /\ hist[1].op = "addMetadata"
    /\ hist[2].op = "removeMetadata"

\* C10: softDelete followed by restore, from any entity state, leaves
\* deletedAt unset, the id unchanged and the version exactly 2 higher than
\* before the softDelete.
C10_SoftDeleteThenRestore ==
    (Len(hist) = 2 /\ hist[1].op = "softDelete" /\ hist[2].op = "restore")
        => /\ ~isDeleted(entity)
           /\ entity.deletedAt = Undefined
           /\ entity.id = hist[1].id
           /\ entity.version = hist[1].version + 2

C10_Witness ==
    /\ Len(hist) = 2
    /\ hist[1].op = "softDelete"
    /\ hist[2].op = "restore"
    /\ hist[1].deletedAt # Undefined
    /\ hist[1].version > 1

\* C11: in every reachable entity state isDeleted() is true exactly when
\* deletedAt holds a date; softDelete leads to the soft-deleted state and
\* restore to the active state from either state; restore is always legal (no
\* terminal state); and the id is the same before and after every call.
C11_DeletedStateMachine ==
    /\ isDeleted(entity) <=> entity.deletedAt \in Times
    /\ Len(hist) >= 1
          => /\ hist[Len(hist)].op = "softDelete" => isDeleted(entity)
             /\ hist[Len(hist)].op = "restore" => ~isDeleted(entity)
             /\ entity.id = hist[Len(hist)].id
    /\ Len(hist) = 2 => hist[2].id = hist[1].id
    /\ nMut < MaxMutations => ENABLED EntityRestore

\* restore from the active state of an entity constructed with a null
\* deletedAt, then softDelete
C11_Witness ==
    /\ Len(hist) = 2
    /\ hist[1].op = "restore"
    /\ hist[1].deletedAt = Null
    /\ hist[2].op = "softDelete"
    /\ hist[2].deletedAt = Undefined
    /\ isDeleted(entity)

----------------------------------------------------------------------------
(* Entity.clone: src/lib/base/entity.ts, lines 133-152.  `metadata` is an   *)
(* object reference, so here the metadata field of an Entity holds the     *)
(* index of a metadata object in `pair.heap`.                              *)

MaxCloneCalls == 2    \* mutating calls on the original and the clone together

\* The entity as a caller reads it: the metadata field followed to its object.
Deref(e, h) == [e EXCEPT !.metadata = h[e.metadata]]

\* Every field is copied; metadata is copied as the reference it is.
toPlainObject(e) ==
    [ id        |-> e.id,
      createdAt |-> e.createdAt,
      updatedAt |-> e.updatedAt,
      createdBy |-> e.createdBy,
      updatedBy |-> e.updatedBy,
      version   |-> e.version,
      deletedAt |-> e.deletedAt,
      hasMetadata |-> e.hasMetadata,
      metadata  |-> e.metadata ]

\* new Constructor(this.toPlainObject()): `data.metadata || {}` keeps the
\* reference it is given and makes a new object (index 2) only for a falsy one.
clone(e, nano, t) ==
    LET data == toPlainObject(e)
        c == NewEntity(data, nano, t, t)
    IN IF data.hasMetadata THEN c ELSE [c EXCEPT !.metadata = 2]

NotCloned == [id |-> NoId]

CloneData ==
    {d \in ConstructorData :
        d.createdAt = Undefined /\ d.updatedBy = NoId /\ d.version = 0}

NewPair(data, nano) ==
    [ clone     |-> NotCloned,
      original  |-> [NewEntity(data, nano, 1, 1) EXCEPT !.metadata = 1],
      heap      |-> <<NewEntity(data, nano, 1, 1).metadata, EmptyMeta>>,
      cloned    |-> FALSE,
      mutated   |-> "none",
      untouched |-> NotCloned,
      calls     |-> 0 ]

Other(who) == IF who = "original" THEN "clone" ELSE "original"

\* A mutating method called on the original or on the clone: it acts on the
\* object's fields and on the metadata object the object refers to.
PairMutate(who, e2, t) ==
    /\ pair.calls < MaxCloneCalls
    /\ who = "clone" => pair.cloned
    /\ pair' = [pair EXCEPT
                  ![who] = [e2 EXCEPT !.metadata = pair[who].metadata],
                  !.heap = [@ EXCEPT ![pair[who].metadata] = e2.metadata],
                  !.mutated = IF pair.cloned THEN who ELSE "none",
                  !.untouched = IF pair.cloned
                                THEN Deref(pair[Other(who)], pair.heap)
                                ELSE NotCloned,
                  !.calls = @ + 1]
    /\ now' = t
    /\ UNCHANGED <<entity, nMut, explicitVersion, hist, callVars, helperVars, toolVars>>

Objects == {"original", "clone"}

PairClone ==
    /\ ~pair.cloned
    /\ \E nano \in GeneratedIds, t \in Later(now) :
          /\ pair' = [pair EXCEPT !.clone = clone(pair.original, nano, t),
                                  !.cloned = TRUE]
          /\ now' = t
    /\ UNCHANGED <<entity, nMut, explicitVersion, hist, callVars, helperVars, toolVars>>

PairSoftDelete ==
    \E who \in Objects, u \in {NoId} \cup UserIds, t \in Later(now) :
        /\ who = "clone" => pair.cloned
        /\ PairMutate(who, softDelete(Deref(pair[who], pair.heap), u, t, t), t)

PairRestore ==
    \E who \in Objects, u \in {NoId} \cup UserIds, t \in Later(now) :
        /\ who = "clone" => pair.cloned
        /\ PairMutate(who, restore(Deref(pair[who], pair.heap), u, t), t)

PairMarkAsUpdated ==
    \E who \in Objects, u \in {NoId} \cup UserIds, t \in Later(now) :
        /\ who = "clone" => pair.cloned
        /\ PairMutate(who, markAsUpdated(Deref(pair[who], pair.heap), u, t), t)

PairAddMetadata ==
    \E who \in Objects, k \in MetaKeys, v \in MetaVals, t \in Later(now) :
        /\ who = "clone" => pair.cloned
        /\ PairMutate(who, addMetadata(Deref(pair[who], pair.heap), k, v, t), t)

PairRemoveMetadata ==
    \E who \in Objects, k \in MetaKeys, t \in Later(now) :
        /\ who = "clone" => pair.cloned
        /\ PairMutate(who, removeMetadata(Deref(pair[who], pair.heap), k, t), t)

\* C12: a clone equals the original on id, version and every envelope field
\* when it is made, and shares no mutable state with it: a later mutating
\* call on the clone (addMetadata and removeMetadata included) leaves every
\* field of the original, metadata contents included, as it was, and a
\* later mutating call on the original leaves the clone as it was.
C12_CloneSharesNoState ==
    /\ (pair.cloned /\ pair.mutated = "none")
          => Deref(pair.clone, pair.heap) = Deref(pair.original, pair.heap)
    /\ pair.mutated = "clone"
          => Deref(pair.original, pair.heap) = pair.untouched
    /\ pair.mutated = "original"
          => Deref(pair.clone, pair.heap) = pair.untouched

----------------------------------------------------------------------------
(* Filter criteria: src/lib/types.ts (FilterCondition, FilterCriteria) *)

\* An optional key of a FilterCriteria is a flag plus a value; `logic` is
\* "undefined" when absent.  `present = FALSE` is the argument `undefined`.
AbsentCriteria ==
    [ present |-> FALSE, hasConditions |-> FALSE, conditions |-> <<>>,
      logic |-> "undefined", hasGroups |-> FALSE, groups |-> <<>> ]

EmptyCriteria == [AbsentCriteria EXCEPT !.present = TRUE]

deleteFilter == [field |-> "deletedAt", operator |-> "isNull", value |-> ""]

CondStatusActive == [field |-> "status", operator |-> "eq", value |-> "active"]
CondDeletedSet == [field |-> "deletedAt", operator |-> "isNotNull", value |-> ""]
CallerConditions == {CondStatusActive, CondDeletedSet}

MaxConditions == 2    \* longest condition list a caller passes

ConditionLists ==
    UNION {[1..n -> CallerConditions] : n \in 0..MaxConditions}

NestedGroup ==
    [ present |-> TRUE, hasConditions |-> TRUE, conditions |-> <<CondDeletedSet>>,
      logic |-> "OR", hasGroups |-> FALSE, groups |-> <<>> ]

\* Every criteria value a caller may pass, `undefined` included.
CallerCriteria ==
    {AbsentCriteria}
    \cup { [ present |-> TRUE, hasConditions |-> TRUE, conditions |-> cs,
             logic |-> lg, hasGroups |-> hg, groups |-> IF hg THEN <<NestedGroup>> ELSE <<>> ]
           : cs \in ConditionLists, lg \in {"undefined", "AND", "OR"}, hg \in BOOLEAN }
    \cup { [ present |-> TRUE, hasConditions |-> FALSE, conditions |-> <<>>,
             logic |-> lg, hasGroups |-> hg, groups |-> IF hg THEN <<NestedGroup>> ELSE <<>> ]
           : lg \in {"undefined", "AND", "OR"}, hg \in BOOLEAN }

InSeq(x, sq) == \E i \in 1..Len(sq) : sq[i] = x

\* The combinator a criteria node applies to its conditions (default AND).
EffectiveLogic(c) == IF c.logic = "OR" THEN "OR" ELSE "AND"

----------------------------------------------------------------------------
(* Failures, events and the run of one call *)

OK == "ok"
NoError == "none"

HookErrors == {"HookFailure"}
ValidationErrors == {"ValidationError"}
StorageErrors == {"ConcurrencyError", "NotFoundError"}

\* isRetryable() of the taxonomy kinds used here.
isRetryable(failure) == failure = "ConcurrencyError"

HookOutcomes == {OK} \cup HookErrors
ValidationOutcomes == {OK} \cup ValidationErrors
StorageOutcomes == {OK} \cup StorageErrors

TraceIds == {"t1", "t2"}          \* results of generateTraceId()

\* Rows as the storage collaborator returns them.
NullEntity == [id |-> NoId, deletedAt |-> Undefined]
StoredEntities == {[id |-> "e1", deletedAt |-> Undefined], [id |-> "e2", deletedAt |-> 1]}
EntityLists == UNION {[1..n -> StoredEntities] : n \in 0..MaxResults}

\* One invocation of a hook or a storage primitive, with its outcome.
Ev(layer, name, out) ==
    [ layer |-> layer, name |-> name, out |-> out, filter |-> AbsentCriteria,
      traceId |-> "", target |-> NoId, error |-> NoError, method |-> "" ]

Hook(layer, name, out) == Ev(layer, name, out)
Prim(name, out) == Ev("storage", name, out)
PrimFound(name, e, out) ==
    [Ev("storage", name, out) EXCEPT !.target = IF out = OK THEN e.id ELSE NoId]
PrimFiltered(name, filter, out) == [Ev("storage", name, out) EXCEPT !.filter = filter]
Found(layer, e, out) == [Ev(layer, "afterFind", out) EXCEPT !.target = e.id]
OnErrorEv(layer, op, error, tid) ==
    [Ev(layer, "onError", OK) EXCEPT !.traceId = tid, !.error = error, !.method = op]

NoPagination == [page |-> 0, limit |-> 0, total |-> 0, hasNext |-> FALSE, hasPrev |-> FALSE]

NoVal ==
    [ data |-> <<>>, kind |-> "none", item |-> NullEntity, count |-> 0,
      flag |-> FALSE, pagination |-> NoPagination ]
VoidVal == [NoVal EXCEPT !.kind = "void"]
EntityVal(e) == [NoVal EXCEPT !.kind = "entity", !.item = e]
ListVal(rows) == [NoVal EXCEPT !.kind = "list", !.data = rows]
CountVal(c) == [NoVal EXCEPT !.kind = "count", !.count = c]
BoolVal(b) == [NoVal EXCEPT !.kind = "bool", !.flag = b]
SearchVal(rows, c) == [NoVal EXCEPT !.kind = "search", !.data = rows, !.count = c]
PageVal(rows, pg) == [NoVal EXCEPT !.kind = "page", !.data = rows, !.pagination = pg]

\* The run of a call: the events so far, the failure in flight (NoError while
\* none was thrown) and the returned value (NoVal until `return`).
Begin == [log |-> <<>>, err |-> NoError, val |-> NoVal, done |-> FALSE]

Live(r) == r.err = NoError /\ ~r.done

\* `await f(...)`: runs only if nothing was thrown or returned before; a
\* rejected await throws.
Step(r, ev) ==
    IF ~Live(r) THEN r
    ELSE [r EXCEPT !.log = Append(@, ev),
                   !.err = IF ev.out = OK THEN NoError ELSE ev.out,
                   !.val = IF ev.out = OK THEN @ ELSE NoVal]

\* `return v`
Ret(r, v) == IF ~Live(r) THEN r ELSE [r EXCEPT !.val = v, !.done = TRUE]

\* `catch (error) { await this.onError(op, error, {..., traceId}); throw error; }`
\* The error hook observes the failure and completes.
\* Faulty variant of Catch: the context handed to onError lacks the traceId.
CatchNoTrace(r, layer, op, tid) ==
    IF r.err = NoError THEN r
    ELSE [r EXCEPT !.log = Append(@, OnErrorEv(layer, op, r.err, ""))]

Catch(r, layer, op, tid) ==
    IF r.err = NoError THEN r
    ELSE [r EXCEPT !.log = Append(@, OnErrorEv(layer, op, r.err, tid))]

\* A nested call `await this.f(...)`: its events, failure and value join the
\* caller's run; the caller continues after it unless it threw.
Call(r, sub) ==
    IF ~Live(r) THEN r
    ELSE [r EXCEPT !.log = @ \o sub.log, !.err = sub.err, !.val = sub.val]

----------------------------------------------------------------------------
(* What the overridable hooks and the storage collaborator do in one call *)

DefaultEnv ==
    [ rows |-> <<>>,                                  \* rows a primitive returns
      before |-> OK, prim |-> OK, after |-> OK,      \* repository hooks, primitive
      primCount |-> OK, first |-> "find",             \* list: executeCount, race
      found |-> NullEntity, counted |-> 0,
      sBefore |-> OK, validate |-> OK, sAfter |-> OK, \* service hooks
      findFailAt |-> 0, findErr |-> "HookFailure" ]   \* service afterFind

DefaultArgs ==
    [ page |-> 0, limit |-> 0, criteria |-> AbsentCriteria, withDeleted |-> FALSE ]

----------------------------------------------------------------------------
(* BaseRepository: src/lib/base/repository.ts *)

DefaultPage == 1
DefaultLimit == 10
DefaultCacheTtl == 300

\* constructor(config = {}): the switches besides softDelete, with the
\* defaults that `...config` overrides (lines 30-38).
DefaultSwitches ==
    [ timestamps |-> TRUE, auditTrail |-> FALSE, tenantIsolation |-> FALSE,
      optimisticLocking |-> TRUE, caching |-> FALSE, cacheTtl |-> DefaultCacheTtl ]

SwitchSettings ==
    [ timestamps : BOOLEAN, auditTrail : BOOLEAN, tenantIsolation : BOOLEAN,
      optimisticLocking : BOOLEAN, caching : BOOLEAN, cacheTtl : {0, DefaultCacheTtl} ]

\* A configuration with the given settings of the switches.
WithSwitches(cfg, s) ==
    [ softDelete |-> cfg.softDelete, timestamps |-> s.timestamps,
      auditTrail |-> s.auditTrail, tenantIsolation |-> s.tenantIsolation,
      optimisticLocking |-> s.optimisticLocking, caching |-> s.caching,
      cacheTtl |-> s.cacheTtl, validation |-> cfg.validation,
      retries |-> cfg.retries ]

\* Faulty variant of applySoftDeleteFilter: nothing is injected.
applySoftDeleteFilterIdentity(cfg, criteria, withDeleted) ==
    IF criteria.present THEN criteria ELSE EmptyCriteria

applySoftDeleteFilter(cfg, criteria, withDeleted) ==
    IF ~cfg.softDelete \/ withDeleted
    THEN (IF criteria.present THEN criteria ELSE EmptyCriteria)
    ELSE IF ~criteria.present
    THEN [EmptyCriteria EXCEPT !.hasConditions = TRUE,
                               !.conditions = <<deleteFilter>>]
    ELSE [criteria EXCEPT !.hasConditions = TRUE,
                          !.conditions = Append(IF criteria.hasConditions
                                                THEN criteria.conditions
                                                ELSE <<>>, deleteFilter)]

\* isDeleted(entity) of the repository: Boolean(entity.deletedAt)
repoIsDeleted(e) == e.deletedAt # Undefined /\ e.deletedAt # Null

RepoCreateRun(cfg, args, env, tid) ==
    LET s1 == Step(Begin, Hook("repository", "beforeCreate", env.before))
        s2 == Step(s1, Prim("executeCreate", env.prim))
        s3 == Step(s2, Hook("repository", "afterCreate", env.after))
        s4 == Ret(s3, EntityVal(env.found))
    IN Catch(s4, "repository", "create", tid)

\* Faulty variant of findById: a soft-deleted entity is returned as found.
RepoFindByIdUnfiltered(cfg, args, env, tid) ==
    LET s1 == Step(Begin, PrimFound("executeFindById", env.found, env.prim))
        s3 == Ret(s1, EntityVal(env.found))
    IN Catch(s3, "repository", "findById", tid)

RepoFindByIdRun(cfg, args, env, tid) ==
    LET s1 == Step(Begin, PrimFound("executeFindById", env.found, env.prim))
        s2 == IF /\ env.found # NullEntity
                 /\ cfg.softDelete
                 /\ ~args.withDeleted
                 /\ repoIsDeleted(env.found)
              THEN Ret(s1, EntityVal(NullEntity))
              ELSE s1
        s3 == Ret(s2, EntityVal(env.found))
    IN Catch(s3, "repository", "findById", tid)

RepoFindManyRun(cfg, args, env, tid) ==
    LET enhancedCriteria == applySoftDeleteFilter(cfg, args.criteria, args.withDeleted)
        s1 == Step(Begin, PrimFiltered("executeFindMany", enhancedCriteria, env.prim))
        s2 == Ret(s1, ListVal(env.rows))
    IN Catch(s2, "repository", "findMany", tid)

\* Faulty variant of update: with optimisticLocking the stored entity is read
\* first, for a version comparison.
RepoUpdateVersionChecked(cfg, args, env, tid) ==
    LET s1 == Step(Begin, Hook("repository", "beforeUpdate", env.before))
        s1v == IF cfg.optimisticLocking
               THEN Step(s1, PrimFound("executeFindById", env.found, OK))
               ELSE s1
        s2 == Step(s1v, Prim("executeUpdate", env.prim))
        s3 == Step(s2, Hook("repository", "afterUpdate", env.after))
        s4 == Ret(s3, EntityVal(env.found))
    IN Catch(s4, "repository", "update", tid)

\* Faulty variant of update: a retryable primitive failure is retried once.
RepoUpdateRetrying(cfg, args, env, tid) ==
    LET s1 == Step(Begin, Hook("repository", "beforeUpdate", env.before))
        s2 == Step(s1, Prim("executeUpdate", env.prim))
        s2r == IF s1.err = NoError /\ s2.err # NoError /\ isRetryable(s2.err)
               THEN Step([s2 EXCEPT !.err = NoError], Prim("executeUpdate", env.prim))
               ELSE s2
        s3 == Step(s2r, Hook("repository", "afterUpdate", env.after))
        s4 == Ret(s3, EntityVal(env.found))
    IN Catch(s4, "repository", "update", tid)

RepoUpdateRun(cfg, args, env, tid) ==
    LET s1 == Step(Begin, Hook("repository", "beforeUpdate", env.before))
        s2 == Step(s1, Prim("executeUpdate", env.prim))
        s3 == Step(s2, Hook("repository", "afterUpdate", env.after))
        s4 == Ret(s3, EntityVal(env.found))
    IN Catch(s4, "repository", "update", tid)

\* Faulty variant of delete: the post-hook runs before the primitive.
RepoDeleteHookFirst(cfg, args, env, tid) ==
    LET s1 == Step(Begin, Hook("repository", "beforeDelete", env.before))
        s2 == Step(s1, Hook("repository", "afterDelete", env.after))
        s3 == Step(s2, Prim("executeDelete", env.prim))
        s4 == Ret(s3, VoidVal)
    IN Catch(s4, "repository", "delete", tid)

RepoDeleteRun(cfg, args, env, tid) ==
    LET s1 == Step(Begin, Hook("repository", "beforeDelete", env.before))
        s2 == Step(s1, Prim("executeDelete", env.prim))
        s3 == Step(s2, Hook("repository", "afterDelete", env.after))
        s4 == Ret(s3, VoidVal)
    IN Catch(s4, "repository", "delete", tid)

RepoCountRun(cfg, args, env, tid) ==
    LET enhancedCriteria == applySoftDeleteFilter(cfg, args.criteria, FALSE)
        s1 == Step(Begin, PrimFiltered("executeCount", enhancedCriteria, env.prim))
        s2 == Ret(s1, CountVal(env.counted))
    IN Catch(s2, "repository", "count", tid)

\* exists(id): findById(id) without options, then `entity !== null`.
RepoExistsRun(cfg, args, env, tid) ==
    LET s1 == Call(Begin, RepoFindByIdRun(cfg, [args EXCEPT !.withDeleted = FALSE], env, tid))
    IN Ret(s1, BoolVal(s1.val.item # NullEntity))

\* Faulty variant of CeilDiv: the quotient is rounded down.
CeilDivFloor(total, limit) == total \div limit

\* Math.ceil(total / limit) for total >= 0, limit >= 1
CeilDiv(total, limit) == (total + limit - 1) \div limit

\* Promise.all([executeFindMany(...), executeCount(...)]): both primitives are
\* started; the promise rejects with whichever rejection comes first.
AwaitAll(r, evFind, evCount, first) ==
    IF ~Live(r) THEN r
    ELSE [r EXCEPT !.log = @ \o <<evFind, evCount>>,
                   !.err = IF evFind.out = OK /\ evCount.out = OK THEN NoError
                           ELSE IF evCount.out = OK THEN evFind.out
                           ELSE IF evFind.out = OK THEN evCount.out
                           ELSE IF first = "find" THEN evFind.out ELSE evCount.out]

\* list(options): no try/catch surrounds the body (lines 156-180).
RepoListRun(cfg, args, env, tid) ==
    LET page == IF args.page # 0 THEN args.page ELSE DefaultPage
        limit == IF args.limit # 0 THEN args.limit ELSE DefaultLimit
        criteria == IF args.criteria.present THEN args.criteria ELSE EmptyCriteria
        enhancedCriteria == applySoftDeleteFilter(cfg, criteria, args.withDeleted)
        s1 == AwaitAll(Begin,
                       PrimFiltered("executeFindMany", enhancedCriteria, env.prim),
                       PrimFiltered("executeCount", enhancedCriteria, env.primCount),
                       env.first)
        totalPages == CeilDiv(env.counted, limit)
    IN Ret(s1, PageVal(env.rows,
                       [ page |-> page, limit |-> limit, total |-> env.counted,
                         hasNext |-> page < totalPages, hasPrev |-> page > 1 ]))

RepoSearchRun(cfg, args, env, tid) ==
    LET s1 == Step(Begin, Prim("executeSearch", env.prim))
        s2 == Ret(s1, SearchVal(env.rows, env.counted))
    IN Catch(s2, "repository", "search", tid)

----------------------------------------------------------------------------
(* BaseService: src/lib/base/service.ts *)

\* `for (const entity of result.data) await this.afterFind(entity, options)`;
\* afterFind rejects at position env.findFailAt (0: never).
RECURSIVE AfterFindEach(_, _, _, _)
AfterFindEach(r, rows, i, env) ==
    IF i > Len(rows) THEN r
    ELSE AfterFindEach(
            Step(r, Found("service", rows[i],
                          IF i = env.findFailAt THEN env.findErr ELSE OK)),
            rows, i + 1, env)

\* Faulty variant of create: validation runs after the repository call.
ServiceCreateValidateLate(cfg, args, env, tid, rtid) ==
    LET s1 == Step(Begin, Hook("service", "beforeCreate", env.sBefore))
        s3 == Call(s1, RepoCreateRun(cfg, args, env, rtid))
        s2 == IF cfg.validation
              THEN Step(s3, Hook("service", "validateCreate", env.validate))
              ELSE s3
        s4 == Step(s2, Hook("service", "afterCreate", env.sAfter))
        s5 == Ret(s4, s4.val)
    IN Catch(s5, "service", "create", tid)

ServiceCreateRun(cfg, args, env, tid, rtid) ==
    LET s1 == Step(Begin, Hook("service", "beforeCreate", env.sBefore))
        s2 == IF cfg.validation
              THEN Step(s1, Hook("service", "validateCreate", env.validate))
              ELSE s1
        s3 == Call(s2, RepoCreateRun(cfg, args, env, rtid))
        s4 == Step(s3, Hook("service", "afterCreate", env.sAfter))
        s5 == Ret(s4, s4.val)
    IN Catch(s5, "service", "create", tid)

ServiceFindByIdRun(cfg, args, env, tid, rtid) ==
    LET s1 == Call(Begin, RepoFindByIdRun(cfg, args, env, rtid))
        s2 == IF s1.val.item # NullEntity
              THEN Step(s1, Found("service", s1.val.item,
                                  IF env.findFailAt = 1 THEN env.findErr ELSE OK))
              ELSE s1
        s3 == Ret(s2, s2.val)
    IN Catch(s3, "service", "findById", tid)

ServiceUpdateRun(cfg, args, env, tid, rtid) ==
    LET s1 == Step(Begin, Hook("service", "beforeUpdate", env.sBefore))
        s2 == IF cfg.validation
              THEN Step(s1, Hook("service", "validateUpdate", env.validate))
              ELSE s1
        s3 == Call(s2, RepoUpdateRun(cfg, args, env, rtid))
        s4 == Step(s3, Hook("service", "afterUpdate", env.sAfter))
        s5 == Ret(s4, s4.val)
    IN Catch(s5, "service", "update", tid)

ServiceDeleteRun(cfg, args, env, tid, rtid) ==
    LET s1 == Step(Begin, Hook("service", "beforeDelete", env.sBefore))
        s2 == Call(s1, RepoDeleteRun(cfg, args, env, rtid))
        s3 == Step(s2, Hook("service", "afterDelete", env.sAfter))
        s4 == Ret(s3, VoidVal)
    IN Catch(s4, "service", "delete", tid)

\* Faulty variant of list: afterFind misses the last entity.
ServiceListSkipLast(cfg, args, env, tid, rtid) ==
    LET s1 == Call(Begin, RepoListRun(cfg, args, env, rtid))
        s2 == AfterFindEach(s1, SubSeq(s1.val.data, 1, Len(s1.val.data) - 1), 1, env)
        s3 == Ret(s2, s2.val)
    IN Catch(s3, "service", "list", tid)

ServiceListRun(cfg, args, env, tid, rtid) ==
    LET s1 == Call(Begin, RepoListRun(cfg, args, env, rtid))
        s2 == AfterFindEach(s1, s1.val.data, 1, env)
        s3 == Ret(s2, s2.val)
    IN Catch(s3, "service", "list", tid)

ServiceSearchRun(cfg, args, env, tid, rtid) ==
    LET s1 == Call(Begin, RepoSearchRun(cfg, args, env, rtid))
        s2 == AfterFindEach(s1, s1.val.data, 1, env)
        s3 == Ret(s2, s2.val)
    IN Catch(s3, "service", "search", tid)

----------------------------------------------------------------------------
(* Actions: one per public method *)

NoCall == [op |-> "none", layer |-> "none", traceId |-> "", args |-> DefaultArgs]

\* The configurations of the pair: softDelete of the repository, validation
\* and retries of the service; the other switches as the constructor sets them.
Configs ==
    { WithSwitches([softDelete |-> d, validation |-> v, retries |-> n], DefaultSwitches)
      : d \in BOOLEAN, v \in BOOLEAN, n \in {0, 3} }

InitCall ==
    /\ config \in Configs
    /\ call = NoCall
    /\ run = Begin

\* No call is in progress.
Idle == call.op = "none"

\* A public method runs to its outcome.
Finish(layer, op, args, tid, r) ==
    /\ call' = [op |-> op, layer |-> layer, traceId |-> tid, args |-> args]
    /\ run' = r
    /\ UNCHANGED <<config, entityVars, pair, helperVars, toolVars>>

\* create / update / delete: hooks and primitive may each fail
MutationEnvs ==
    { [DefaultEnv EXCEPT !.before = b, !.prim = p, !.after = a, !.found = e]
      : b \in HookOutcomes, p \in StorageOutcomes, a \in HookOutcomes,
        e \in StoredEntities }

FindOneEnvs ==
    { [DefaultEnv EXCEPT !.prim = p, !.found = e]
      : p \in StorageOutcomes, e \in {NullEntity} \cup StoredEntities }

FindManyEnvs ==
    { [DefaultEnv EXCEPT !.prim = p, !.rows = rows, !.counted = n]
      : p \in StorageOutcomes, rows \in EntityLists, n \in {0, MaxTotal} }

ListEnvs ==
    { [DefaultEnv EXCEPT !.prim = p, !.primCount = c, !.first = f,
                         !.rows = rows, !.counted = n]
      : p \in {OK, "ConcurrencyError"}, c \in {OK, "NotFoundError"},
        f \in {"find", "count"}, rows \in EntityLists, n \in {0, MaxTotal} }

\* service hooks on top of a repository environment
WithServiceHooks(envs) ==
    { [e EXCEPT !.sBefore = b, !.validate = v, !.sAfter = a]
      : e \in envs, b \in HookOutcomes, v \in ValidationOutcomes, a \in HookOutcomes }

WithAfterFind(envs) ==
    { [e EXCEPT !.findFailAt = i] : e \in envs, i \in 0..MaxResults }

FindArgs ==
    { [DefaultArgs EXCEPT !.withDeleted = w] : w \in BOOLEAN }

CriteriaArgs ==
    { [DefaultArgs EXCEPT !.criteria = c, !.withDeleted = w]
      : c \in CallerCriteria, w \in BOOLEAN }

ListArgs ==
    { [DefaultArgs EXCEPT !.page = pg, !.limit = lm, !.criteria = c, !.withDeleted = w]
      : c \in {AbsentCriteria,
               [EmptyCriteria EXCEPT !.hasConditions = TRUE,
                                     !.conditions = <<CondStatusActive>>,
                                     !.logic = "OR"]},
        w \in BOOLEAN, pg \in {0, 2}, lm \in {0, 2} }

RepositoryCreate ==
    /\ Idle
    /\ \E tid \in TraceIds, env \in MutationEnvs :
        Finish("repository", "create", DefaultArgs, tid,
               RepoCreateRun(config, DefaultArgs, env, tid))

RepositoryFindById ==
    /\ Idle
    /\ \E tid \in TraceIds, args \in FindArgs, env \in FindOneEnvs :
        Finish("repository", "findById", args, tid,
               RepoFindByIdRun(config, args, env, tid))

RepositoryFindMany ==
    /\ Idle
    /\ \E tid \in TraceIds, args \in CriteriaArgs, env \in FindManyEnvs :
        /\ args.criteria.present
        /\ Finish("repository", "findMany", args, tid,
                  RepoFindManyRun(config, args, env, tid))

RepositoryUpdate ==
    /\ Idle
    /\ \E tid \in TraceIds, env \in MutationEnvs :
        Finish("repository", "update", DefaultArgs, tid,
               RepoUpdateRun(config, DefaultArgs, env, tid))

RepositoryDelete ==
    /\ Idle
    /\ \E tid \in TraceIds, env \in MutationEnvs :
        Finish("repository", "delete", DefaultArgs, tid,
               RepoDeleteRun(config, DefaultArgs, env, tid))

RepositoryCount ==
    /\ Idle
    /\ \E tid \in TraceIds, args \in CriteriaArgs, env \in FindManyEnvs :
        /\ ~args.withDeleted
        /\ Finish("repository", "count", args, tid,
                  RepoCountRun(config, args, env, tid))

RepositoryExists ==
    /\ Idle
    /\ \E tid \in TraceIds, env \in FindOneEnvs :
        Finish("repository", "exists", DefaultArgs, tid,
               RepoExistsRun(config, DefaultArgs, env, tid))

RepositoryList ==
    /\ Idle
    /\ \E tid \in TraceIds, args \in ListArgs, env \in ListEnvs :
        Finish("repository", "list", args, tid,
               RepoListRun(config, args, env, tid))

RepositorySearch ==
    /\ Idle
    /\ \E tid \in TraceIds, env \in FindManyEnvs :
        Finish("repository", "search", DefaultArgs, tid,
               RepoSearchRun(config, DefaultArgs, env, tid))

\* The awaiting caller takes the outcome (value or failure); neither object
\* keeps state of the call.
Settle ==
    /\ ~Idle
    /\ call' = NoCall
    /\ run' = Begin
    /\ UNCHANGED <<config, entityVars, pair, helperVars, toolVars>>

ServiceCreate ==
    /\ Idle
    /\ \E tid \in TraceIds, env \in WithServiceHooks(MutationEnvs) :
        \E rtid \in TraceIds \ {tid} :
            Finish("service", "create", DefaultArgs, tid,
                   ServiceCreateRun(config, DefaultArgs, env, tid, rtid))

ServiceFindById ==
    /\ Idle
    /\ \E tid \in TraceIds, args \in FindArgs, env \in WithAfterFind(FindOneEnvs) :
        \E rtid \in TraceIds \ {tid} :
            Finish("service", "findById", args, tid,
                   ServiceFindByIdRun(config, args, env, tid, rtid))

ServiceUpdate ==
    /\ Idle
    /\ \E tid \in TraceIds, env \in WithServiceHooks(MutationEnvs) :
        \E rtid \in TraceIds \ {tid} :
            Finish("service", "update", DefaultArgs, tid,
                   ServiceUpdateRun(config, DefaultArgs, env, tid, rtid))

ServiceDelete ==
    /\ Idle
    /\ \E tid \in TraceIds, env \in WithServiceHooks(MutationEnvs) :
        \E rtid \in TraceIds \ {tid} :
            Finish("service", "delete", DefaultArgs, tid,
                   ServiceDeleteRun(config, DefaultArgs, env, tid, rtid))

ServiceList ==
    /\ Idle
    /\ \E tid \in TraceIds, args \in ListArgs, env \in WithAfterFind(ListEnvs) :
        \E rtid \in TraceIds \ {tid} :
            Finish("service", "list", args, tid,
                   ServiceListRun(config, args, env, tid, rtid))

ServiceSearch ==
    /\ Idle
    /\ \E tid \in TraceIds, env \in WithAfterFind(FindManyEnvs) :
        \E rtid \in TraceIds \ {tid} :
            Finish("service", "search", DefaultArgs, tid,
                   ServiceSearchRun(config, DefaultArgs, env, tid, rtid))

----------------------------------------------------------------------------
(* Reading the run of the last call *)

Threw == run.err # NoError
Returned == run.done /\ run.err = NoError

Positions == DOMAIN run.log
EventsAt(layer, name) ==
    {i \in Positions : run.log[i].layer = layer /\ run.log[i].name = name}
EventsOf(layer) == {i \in Positions : run.log[i].layer = layer}
Failing == {i \in Positions : run.log[i].out # OK}

BeforeName(op) ==
    CASE op = "create" -> "beforeCreate"
      [] op = "update" -> "beforeUpdate"
      [] op = "delete" -> "beforeDelete"
      [] OTHER -> "-"
PrimitiveName(op) ==
    CASE op = "create" -> "executeCreate"
      [] op = "update" -> "executeUpdate"
      [] op = "delete" -> "executeDelete"
      [] OTHER -> "-"
AfterName(op) ==
    CASE op = "create" -> "afterCreate"
      [] op = "update" -> "afterUpdate"
      [] op = "delete" -> "afterDelete"
      [] OTHER -> "-"
ValidateName(op) ==
    CASE op = "create" -> "validateCreate"
      [] op = "update" -> "validateUpdate"
      [] OTHER -> "-"

PrimitiveNames ==
    { "executeCreate", "executeFindById", "executeFindMany", "executeUpdate",
      "executeDelete", "executeCount", "executeSearch" }
AfterHookNames == {"afterCreate", "afterUpdate", "afterDelete", "afterFind"}

HasDeleteFilter(f) == InSeq(deleteFilter, f.conditions)

\* The node has nothing to combine the soft-delete condition with.
OnlyDeleteFilter(f) ==
    /\ \A i \in 1..Len(f.conditions) : f.conditions[i] = deleteFilter
    /\ f.groups = <<>>

\* The soft-delete condition is a conjunct of the node: the node combines its
\* members with AND, or the condition is its only member.
InTopLevelAnd(f) ==
    /\ HasDeleteFilter(f)
    /\ EffectiveLogic(f) = "AND" \/ OnlyDeleteFilter(f)

\* The soft-delete rule applies to the call: enabled and not opted out.
SoftDeleteApplies == config.softDelete /\ ~call.args.withDeleted

----------------------------------------------------------------------------
(* Claims about the repository and the service, checked under Spec *)

\* C2: with soft delete enabled and withDeleted not set, the filter that
\* applySoftDeleteFilter produces for any caller criteria has the condition
\* {deletedAt isNull} in its top-level AND, so it can only match records whose
\* deletedAt is null; with withDeleted = true the caller's filter is returned
\* unmodified.  Read off the filter a repository findMany/count hands to its
\* primitive, which is the function's result for the call's criteria.
C2_DeleteFilterInTopLevelAnd ==
    (call.layer = "repository" /\ call.op \in {"findMany", "count"})
        => \A i \in EventsOf("storage") :
              /\ SoftDeleteApplies
                    => InTopLevelAnd(run.log[i].filter)
              /\ (call.args.withDeleted /\ call.args.criteria.present)
                    => run.log[i].filter = call.args.criteria

\* C3 as stated: with soft delete enabled and withDeleted not set, every read
\* path (findById, findMany, count, list) hands its storage primitive a filter
\* containing the deletedAt isNull condition.
C3_EveryReadPathFiltersInStorage ==
    ( /\ call.layer = "repository"
      /\ call.op \in {"findById", "findMany", "count", "list"}
      /\ SoftDeleteApplies )
        => \A i \in EventsOf("storage") : HasDeleteFilter(run.log[i].filter)

\* C3 amended: with soft delete enabled and withDeleted not set, findMany,
\* count and list hand every storage primitive they invoke a filter that
\* contains the deletedAt isNull condition; findById hands executeFindById no
\* filter and excludes the record in memory: it returns null when the entity
\* the primitive returned has deletedAt set.
C3_ReadPathsExcludeDeleted ==
    (call.layer = "repository" /\ SoftDeleteApplies)
        => /\ call.op \in {"findMany", "count", "list"}
                => /\ \A i \in EventsOf("storage") : HasDeleteFilter(run.log[i].filter)
                   /\ EventsOf("storage") # {}
           /\ call.op = "findById"
                => /\ \A i \in EventsOf("storage") : ~run.log[i].filter.present
                   /\ Returned => ~repoIsDeleted(run.val.item)
                   /\ (Returned /\ run.log[1].target = "e2") => run.val.item = NullEntity

C3_Witness ==
    /\ call.layer = "repository"
    /\ call.op = "list"
    /\ SoftDeleteApplies
    /\ call.args.criteria.present
    /\ call.args.criteria.logic = "OR"
    /\ Returned
    /\ Len(run.log) = 2

\* C4: for every public repository operation, when a hook or the storage
\* primitive throws, onError is invoked exactly once for that operation and
\* the caller receives the identical failure, never swallowed.
C4_ErrorHookOncePerFailure ==
    (call.layer = "repository" /\ Failing # {})
        => /\ Cardinality(EventsAt("repository", "onError")) = 1
           /\ Threw
           /\ \E i \in Failing : run.err = run.log[i].out

\* C5: in repository create, update and delete the order is pre-hook, storage
\* primitive, post-hook: the primitive is never invoked when the pre-hook
\* throws, the post-hook is never invoked when the primitive throws, and the
\* operation returns only after the post-hook has completed.
C5_HookPrimitiveHookOrder ==
    (call.layer = "repository" /\ call.op \in {"create", "update", "delete"})
        => LET b == EventsAt("repository", BeforeName(call.op))
               p == EventsAt("storage", PrimitiveName(call.op))
               a == EventsAt("repository", AfterName(call.op))
           IN /\ \A j \in p : \E i \in b : i < j /\ run.log[i].out = OK
              /\ \A k \in a : \E j \in p : j < k /\ run.log[j].out = OK
              /\ (\E i \in b : run.log[i].out # OK) => p = {} /\ a = {}
              /\ (\E j \in p : run.log[j].out # OK) => a = {}
              /\ Returned => /\ b # {} /\ p # {} /\ a # {}
                             /\ \A k \in a : run.log[k].out = OK

C5_Witness ==
    /\ call.layer = "repository"
    /\ call.op = "delete"
    /\ Len(run.log) = 3
    /\ run.log[1].name = "beforeDelete"
    /\ run.log[2].name = "executeDelete"
    /\ run.log[2].out = "NotFoundError"
    /\ run.log[3].name = "onError"

\* C6: with the validation flag enabled, service create/update invoke
\* validateCreate/validateUpdate before repository create/update, and a
\* raising validation hook means the repository and the storage primitive are
\* never invoked; with the flag disabled the validation hook is never invoked.
C6_ValidationPrecedesMutation ==
    (call.layer = "service" /\ call.op \in {"create", "update"})
        => LET v == EventsAt("service", ValidateName(call.op))
               lower == EventsOf("repository") \cup EventsOf("storage")
           IN /\ config.validation
                    => /\ \A j \in lower : \E i \in v : i < j /\ run.log[i].out = OK
                       /\ (\E i \in v : run.log[i].out # OK) => lower = {}
                       /\ Returned => Cardinality(v) = 1
              /\ ~config.validation => v = {}

C6_Witness ==
    /\ call.layer = "service"
    /\ call.op = "update"
    /\ config.validation
    /\ Len(run.log) = 3
    /\ run.log[2].name = "validateUpdate"
    /\ run.log[2].out = "ValidationError"
    /\ Threw

\* C7: repository and service operations never retry: in one call of any
\* public operation each storage primitive is invoked at most once, whatever
\* the failure's isRetryable() and whatever the service's retries setting.
C7_NoInternalRetry ==
    \A nm \in PrimitiveNames : Cardinality(EventsAt("storage", nm)) <= 1

C7_Witness ==
    /\ call.layer = "service"
    /\ call.op = "update"
    /\ config.retries > 0
    /\ Threw
    /\ isRetryable(run.err)
    /\ EventsAt("storage", "executeUpdate") # {}

C9_AfterFindPerEntity ==
    (call.layer = "service" /\ call.op \in {"findById", "list", "search"} /\ Returned)
        => LET found == SelectSeq(run.log, LAMBDA ev : ev.layer = "service" /\ ev.name = "afterFind")
               rows == IF call.op = "findById"
                       THEN (IF run.val.item = NullEntity THEN <<>> ELSE <<run.val.item>>)
                       ELSE run.val.data
           IN /\ Len(found) = Len(rows)
              /\ \A i \in 1..Len(rows) : found[i].target = rows[i].id /\ found[i].out = OK

C9_Witness ==
    /\ call.layer = "service"
    /\ call.op = "list"
    /\ Returned
    /\ Len(run.val.data) = 2
    /\ run.val.data[1].id # run.val.data[2].id

\* C16: repository.list applies the soft-delete rule to the optional caller
\* filter (the deletedAt isNull condition joins the caller's conditions in the
\* top-level AND unless soft delete is off or withDeleted is set), invokes
\* executeFindMany exactly once and executeCount exactly once with the
\* identical effective filter, and returns data equal to the find result and
\* total equal to the count result, with page defaulting to 1 and limit to 10
\* and hasNext/hasPrev computed by the offset formulae.
C16_ListAssemblesPage ==
    (call.layer = "repository" /\ call.op = "list")
        => /\ Cardinality(EventsAt("storage", "executeFindMany")) = 1
           /\ Cardinality(EventsAt("storage", "executeCount")) = 1
           /\ \A i, j \in EventsOf("storage") : run.log[i].filter = run.log[j].filter
           /\ \A i \in EventsOf("storage") :
                 /\ SoftDeleteApplies
                       => /\ InTopLevelAnd(run.log[i].filter)
                          /\ call.args.criteria.present
                                => \A k \in 1..Len(call.args.criteria.conditions) :
                                      run.log[i].filter.conditions[k]
                                        = call.args.criteria.conditions[k]
                 /\ ~SoftDeleteApplies
                       => run.log[i].filter = IF call.args.criteria.present
                                              THEN call.args.criteria
                                              ELSE EmptyCriteria
           /\ \A env \in ListEnvs :
                 (Returned /\ run = RepoListRun(config, call.args, env, call.traceId))
                    => /\ run.val.data = env.rows
                       /\ run.val.pagination.total = env.counted
           /\ Returned
                 => /\ run.val.pagination.page
                         = IF call.args.page # 0 THEN call.args.page ELSE 1
                    /\ run.val.pagination.limit
                         = IF call.args.limit # 0 THEN call.args.limit ELSE 10
                    /\ run.val.pagination.hasNext
                         = (run.val.pagination.page * run.val.pagination.limit
                              < run.val.pagination.total)
                    /\ run.val.pagination.hasPrev = (run.val.pagination.page > 1)

\* C17: exists(id) returns exactly (findById(id) !== null); with soft delete
\* enabled and withDeleted not set, findById returns null whenever the storage
\* primitive returns an entity whose deletedAt is set and otherwise returns
\* what the primitive returned, so exists is false for a soft-deleted entity
\* and for an absent one.
C17_ExistsIsFindByIdNotNull ==
    /\ (call.layer = "repository" /\ call.op = "exists")
          => /\ \A env \in FindOneEnvs :
                   run = RepoExistsRun(config, call.args, env, call.traceId)
                     => /\ run.err
                             = RepoFindByIdRun(config, call.args, env, call.traceId).err
                        /\ Returned
                             => run.val.flag
                                  = (RepoFindByIdRun(config, call.args, env,
                                                     call.traceId).val.item
                                       # NullEntity)
             /\ (Returned /\ config.softDelete /\ run.log[1].target \in {NoId, "e2"})
                   => ~run.val.flag
    /\ (call.layer = "repository" /\ call.op = "findById" /\ Returned)
          => \A env \in FindOneEnvs :
                run = RepoFindByIdRun(config, call.args, env, call.traceId)
                  => run.val.item
                       = IF SoftDeleteApplies /\ env.found.deletedAt \in Times
                         THEN NullEntity
                         ELSE env.found

\* exists on a soft-deleted entity with soft delete enabled
C17_Witness ==
    /\ call.layer = "repository"
    /\ call.op = "exists"
    /\ Returned
    /\ config.softDelete
    /\ run.log[1].target = "e2"
    /\ ~run.val.flag

\* The run of the repository method of call c under configuration cfg, in
\* the environment env.
RepositoryRun(cfg, c, env) ==
    CASE c.op = "create" -> RepoCreateRun(cfg, c.args, env, c.traceId)
      [] c.op = "findById" -> RepoFindByIdRun(cfg, c.args, env, c.traceId)
      [] c.op = "findMany" -> RepoFindManyRun(cfg, c.args, env, c.traceId)
      [] c.op = "update" -> RepoUpdateRun(cfg, c.args, env, c.traceId)
      [] c.op = "delete" -> RepoDeleteRun(cfg, c.args, env, c.traceId)
      [] c.op = "count" -> RepoCountRun(cfg, c.args, env, c.traceId)
      [] c.op = "exists" -> RepoExistsRun(cfg, c.args, env, c.traceId)
      [] c.op = "list" -> RepoListRun(cfg, c.args, env, c.traceId)
      [] c.op = "search" -> RepoSearchRun(cfg, c.args, env, c.traceId)

\* The environments the method of call c is exercised in.
RepositoryEnvs(c) ==
    CASE c.op \in {"create", "update", "delete"} -> MutationEnvs
      [] c.op \in {"findById", "exists"} -> FindOneEnvs
      [] c.op \in {"findMany", "count", "search"} -> FindManyEnvs
      [] c.op = "list" -> ListEnvs

\* The configurations that differ from cfg at most in timestamps, auditTrail,
\* tenantIsolation, optimisticLocking, caching and cacheTtl.
SameSoftDelete(cfg) == {WithSwitches(cfg, s) : s \in SwitchSettings}

ReadMethods == {"findById", "findMany", "count", "exists", "list", "search"}

\* C23: only softDelete changes what a repository does.  A repository whose
\* configuration differs from this one only in timestamps, auditTrail,
\* tenantIsolation, optimisticLocking, caching or cacheTtl makes, for the same
\* call in the same environment, the same hook and storage-primitive
\* invocations with the same arguments and the same outcome; update invokes
\* executeUpdate right after its pre-hook and no other primitive (no read for
\* a version comparison), whatever optimisticLocking is; and a read that
\* returns has invoked a storage primitive (none is answered from a cache).
C23_OnlySoftDeleteSwitches ==
    (call.layer = "repository" /\ ~Idle) =>
        /\ \A env \in RepositoryEnvs(call) :
              run = RepositoryRun(config, call, env)
                  => \A cfg \in SameSoftDelete(config) :
                        RepositoryRun(cfg, call, env) = run
        /\ call.op = "update" =>
              /\ \A i \in EventsOf("storage") : run.log[i].name = "executeUpdate"
              /\ (Len(run.log) >= 2 /\ run.log[1].out = OK)
                    => run.log[2].name = "executeUpdate"
        /\ (call.op \in ReadMethods /\ Returned) => EventsOf("storage") # {}

C23_Witness ==
    /\ call.layer = "repository"
    /\ call.op = "update"
    /\ Returned
    /\ config.optimisticLocking
    /\ \E cfg \in SameSoftDelete(config) :
          /\ ~cfg.optimisticLocking
          /\ cfg.caching
          /\ \E env \in RepositoryEnvs(call) : RepositoryRun(cfg, call, env) = run

----------------------------------------------------------------------------
(* Pagination: src/lib/query/pagination.ts, src/lib/utils/helpers.ts *)

MaxPage == 4          \* largest page number asked for
MaxLimit == 3         \* largest page size asked for in a computation
MaxItems == 6         \* largest total of matching records

MaxAllowedLimit == 100

\* PaginationOptions: page and limit are optional numbers.
PaginationOptions(hasPage, page, hasLimit, limit) ==
    [ page |-> IF hasPage THEN page ELSE 0, limit |-> IF hasLimit THEN limit ELSE 0,
      total |-> 0, hasPage |-> hasPage, hasLimit |-> hasLimit ]

\* A supplied number is truthy unless it is 0.
TruthyPage(options) == options.hasPage /\ options.page # 0
TruthyLimit(options) == options.hasLimit /\ options.limit # 0

calculateOffset(page, limit) == (page - 1) * limit

calculateTotalPages(total, limit) == CeilDiv(total, limit)

createPagination(data, total, options) ==
    LET page == IF TruthyPage(options) THEN options.page ELSE 1
        limit == IF TruthyLimit(options) THEN options.limit ELSE 10
        totalPages == calculateTotalPages(total, limit)
    IN [ data |-> data,
         pagination |-> [ page |-> page, limit |-> limit, total |-> total,
                          hasNext |-> page < totalPages, hasPrev |-> page > 1 ] ]

getOffset(page, limit) == calculateOffset(page, limit)

getPaginationMeta(page, limit, total) ==
    LET totalPages == calculateTotalPages(total, limit)
        offset == calculateOffset(page, limit)
    IN [ page |-> page, limit |-> limit, total |-> total,
         hasNext |-> page < totalPages, hasPrev |-> page > 1,
         totalPages |-> totalPages, offset |-> offset,
         isFirstPage |-> page = 1, isLastPage |-> page = totalPages ]

\* validatePagination(options): the message of the Error thrown, or NoError.
validatePagination(options) ==
    IF TruthyPage(options) /\ options.page < 1
    THEN "Page must be greater than 0"
    ELSE IF TruthyLimit(options) /\ options.limit < 1
    THEN "Limit must be greater than 0"
    ELSE IF TruthyLimit(options) /\ options.limit > MaxAllowedLimit
    THEN "Limit cannot exceed 100"
    ELSE NoError

\* Items of an ordered sequence and the caller's cursor-extraction function.
Items == {"i1", "i2"}
NoCursor == "undefined"
getCursor(item) == IF item = "i1" THEN "c1" ELSE "c2"

\* Faulty variant of createCursorPagination: the extra item is kept.
createCursorPaginationKeepAll(data, limit) ==
    LET hasMore == Len(data) > limit
        items == data
        nextCursor == IF hasMore /\ Len(items) > 0
                      THEN getCursor(items[Len(items)]) ELSE NoCursor
    IN [data |-> items, hasPrev |-> FALSE, nextCursor |-> nextCursor]

createCursorPagination(data, limit) ==
    LET hasMore == Len(data) > limit
        items == IF hasMore THEN SubSeq(data, 1, Len(data) - 1) ELSE data
        nextCursor == IF hasMore /\ Len(items) > 0
                      THEN getCursor(items[Len(items)]) ELSE NoCursor
    IN [data |-> items, hasPrev |-> FALSE, nextCursor |-> nextCursor]

\* The pagination block BaseRepository.list assembles for the same inputs.
listPagination(total, options) ==
    RepoListRun([softDelete |-> TRUE, validation |-> TRUE, retries |-> 0],
                [DefaultArgs EXCEPT !.page = IF options.hasPage THEN options.page ELSE 0,
                                    !.limit = IF options.hasLimit THEN options.limit ELSE 0],
                [DefaultEnv EXCEPT !.counted = total],
                "t1").val.pagination

NoPaging == [method |-> "none", input |-> <<>>, output |-> <<>>]

\* Options a caller passes: page and limit each absent or a small integer; a
\* limit at and just above the allowed maximum is passed to the validation.
SuppliedOptions ==
    {PaginationOptions(hp, pg, hl, lm) :
        hp \in BOOLEAN, pg \in -1..MaxPage, hl \in BOOLEAN,
        lm \in (-1..MaxLimit) \cup {MaxAllowedLimit, MaxAllowedLimit + 1}}

\* Math.ceil(total / limit) is modelled for the limits 1..MaxLimit and for
\* the default that replaces an absent or zero limit.
Computable(options) == options.limit \in 0..MaxLimit

FetchedLists == UNION {[1..n -> Items] : n \in 0..(MaxLimit + 1)}

Paged(method, input, output) ==
    /\ paging' = [method |-> method, input |-> input, output |-> output]
    /\ UNCHANGED <<entityVars, callVars, pair, handled, toolVars>>

PagingCreatePagination ==
    \E options \in SuppliedOptions, total \in 0..MaxItems :
        /\ Computable(options)
        /\ Paged("createPagination", [options EXCEPT !.total = total],
                 createPagination(<<>>, total, options).pagination)

PagingGetPaginationMeta ==
    \E options \in SuppliedOptions, total \in 0..MaxItems :
        /\ options.hasPage /\ options.hasLimit
        /\ Computable(options) /\ options.limit # 0
        /\ Paged("getPaginationMeta", [options EXCEPT !.total = total],
                 getPaginationMeta(options.page, options.limit, total))

PagingList ==
    \E options \in SuppliedOptions, total \in 0..MaxItems :
        /\ Computable(options)
        /\ Paged("list", [options EXCEPT !.total = total],
                 listPagination(total, options))

PagingValidatePagination ==
    \E options \in SuppliedOptions :
        /\ options.total = 0
        /\ Paged("validatePagination", options, validatePagination(options))

PagingCreateCursorPagination ==
    \E limit \in 1..MaxLimit, data \in FetchedLists :
        /\ Len(data) <= limit + 1
        /\ Paged("createCursorPagination", [data |-> data, limit |-> limit],
                 createCursorPagination(data, limit))

\* The least n with n * limit >= total.
Ceiling(total, limit) ==
    CHOOSE n \in 0..total : n * limit >= total /\ (n = 0 \/ (n - 1) * limit < total)

OffsetMethods == {"createPagination", "getPaginationMeta", "list"}

\* C13: for total T >= 0, limit L >= 1 and page P with 1 <= P <= ceil(T/L),
\* hasNext is (P*L < T), hasPrev is (P > 1), offset is (P-1)*L and totalPages
\* is ceil(T/L); createPagination, getPaginationMeta and BaseRepository.list
\* report these same values for the same inputs.
C13_OffsetFormulae ==
    ( /\ paging.method \in OffsetMethods
      /\ paging.input.hasPage /\ paging.input.hasLimit
      /\ paging.input.limit >= 1
      /\ paging.input.page >= 1
      /\ paging.input.page <= Ceiling(paging.input.total, paging.input.limit) )
    => /\ paging.output.page = paging.input.page
       /\ paging.output.limit = paging.input.limit
       /\ paging.output.total = paging.input.total
       /\ paging.output.hasNext
             = (paging.input.page * paging.input.limit < paging.input.total)
       /\ paging.output.hasPrev = (paging.input.page > 1)
       /\ paging.method = "getPaginationMeta"
             => /\ paging.output.offset
                     = (paging.input.page - 1) * paging.input.limit
                /\ paging.output.totalPages
                     = Ceiling(paging.input.total, paging.input.limit)

\* page 2 of 3 as list reports it: a next and a previous page
C13_Witness ==
    /\ paging.method = "list"
    /\ paging.input.hasPage /\ paging.input.hasLimit
    /\ paging.input.page = 2
    /\ paging.input.limit = 2
    /\ paging.input.total = 5
    /\ paging.output.hasNext
    /\ paging.output.hasPrev

\* C14: validatePagination raises for every supplied page below 1 (0
\* included), every supplied limit below 1 (0 included) and every limit above
\* 100, and raises nothing when 1 <= page and 1 <= limit <= 100.
C14_ValidationRejects ==
    paging.method = "validatePagination"
    => /\ (paging.input.hasPage /\ paging.input.page < 1) => paging.output # NoError
       /\ (paging.input.hasLimit /\ paging.input.limit < 1) => paging.output # NoError
       /\ (paging.input.hasLimit /\ paging.input.limit > MaxAllowedLimit)
             => paging.output # NoError
       /\ ( /\ paging.input.hasPage => paging.input.page >= 1
            /\ paging.input.hasLimit => /\ paging.input.limit >= 1
                                        /\ paging.input.limit <= MaxAllowedLimit )
             => paging.output = NoError

\* C15: createCursorPagination with limit L >= 1 on at most L+1 fetched
\* items: L+1 fetched gives the first L items and the cursor of the item at
\* index L-1 as nextCursor; at most L fetched gives all of them and no
\* nextCursor; the data is always a prefix of the fetched items of length at
\* most L, and hasPrev is always false.
C15_CursorPagination ==
    paging.method = "createCursorPagination"
    => /\ Len(paging.input.data) = paging.input.limit + 1
             => /\ paging.output.data
                     = SubSeq(paging.input.data, 1, paging.input.limit)
                /\ paging.output.nextCursor
                     = getCursor(paging.input.data[paging.input.limit])
       /\ Len(paging.input.data) <= paging.input.limit
             => /\ paging.output.data = paging.input.data
                /\ paging.output.nextCursor = NoCursor
       /\ Len(paging.output.data) <= paging.input.limit
       /\ paging.output.data
             = SubSeq(paging.input.data, 1, Len(paging.output.data))
       /\ paging.output.hasPrev = FALSE

\* a full page and one more: the extra item is dropped, the cursor is the
\* last retained item's
C15_Witness ==
    /\ paging.method = "createCursorPagination"
    /\ paging.input.limit = 2
    /\ paging.input.data = <<"i1", "i2", "i1">>
    /\ paging.output.data = <<"i1", "i2">>
    /\ paging.output.nextCursor = "c2"

----------------------------------------------------------------------------
(* Error taxonomy and handling: src/lib/errors/domain.ts (the file also     *)
(* holds the base classes, lines 329-657), src/lib/errors/handlers.ts,      *)
(* src/lib/utils/response.ts.  A message is a sequence of its text parts.   *)

ErrorKinds ==
    { "ValidationError", "DomainValidationError", "NotFoundError", "ConflictError",
      "UnauthorizedError", "ForbiddenError", "RateLimitError", "InternalServerError",
      "DatabaseError", "NetworkError", "BusinessRuleError", "ConcurrencyError",
      "InvariantViolationError", "ResourceExhaustedError", "TimeoutError" }

\* `error instanceof ValidationError`
IsValidationError(e) == e.kind \in {"ValidationError", "DomainValidationError"}

Messages == {<<"boom">>, <<"secret">>}
NoMessage == <<>>                       \* the message argument left out
GenericMessage == <<"Internal server error">>

\* ErrorContext handed to a constructor or to the handler, or none.
NoContext == [present |-> FALSE, traceId |-> ""]
Contexts == {NoContext} \cup {[present |-> TRUE, traceId |-> t] : t \in {"", "t1"}}

\* The second and third argument of each constructor's super(...) call.
codeOf(kind) ==
    CASE kind \in {"ValidationError", "DomainValidationError"} -> "VALIDATION_ERROR"
      [] kind = "NotFoundError" -> "NOT_FOUND"
      [] kind = "ConflictError" -> "CONFLICT"
      [] kind = "UnauthorizedError" -> "UNAUTHORIZED"
      [] kind = "ForbiddenError" -> "FORBIDDEN"
      [] kind = "RateLimitError" -> "RATE_LIMIT_EXCEEDED"
      [] kind = "InternalServerError" -> "INTERNAL_SERVER_ERROR"
      [] kind = "DatabaseError" -> "DATABASE_ERROR"
      [] kind = "NetworkError" -> "NETWORK_ERROR"
      [] kind = "BusinessRuleError" -> "BUSINESS_RULE_ERROR"
      [] kind = "ConcurrencyError" -> "CONCURRENCY_ERROR"
      [] kind = "InvariantViolationError" -> "INVARIANT_VIOLATION"
      [] kind = "ResourceExhaustedError" -> "RESOURCE_EXHAUSTED"
      [] kind = "TimeoutError" -> "TIMEOUT_ERROR"

statusCodeOf(kind) ==
    CASE kind \in {"ValidationError", "DomainValidationError"} -> 400
      [] kind = "NotFoundError" -> 404
      [] kind = "ConflictError" -> 409
      [] kind = "UnauthorizedError" -> 401
      [] kind = "ForbiddenError" -> 403
      [] kind = "RateLimitError" -> 429
      [] kind = "InternalServerError" -> 500
      [] kind = "DatabaseError" -> 500
      [] kind = "NetworkError" -> 503
      [] kind = "BusinessRuleError" -> 422
      [] kind = "ConcurrencyError" -> 409
      [] kind = "InvariantViolationError" -> 422
      [] kind = "ResourceExhaustedError" -> 429
      [] kind = "TimeoutError" -> 408

\* Kinds whose constructor has a default message.
defaultMessage(kind) ==
    CASE kind = "UnauthorizedError" -> <<"Unauthorized">>
      [] kind = "ForbiddenError" -> <<"Forbidden">>
      [] kind = "RateLimitError" -> <<"Rate limit exceeded">>
      [] kind = "InternalServerError" -> <<"Internal server error">>
      [] OTHER -> NoMessage

\* The message NotFoundError builds from (resource, identifier).
notFoundMessage(resource, identifier) ==
    IF identifier # NoId
    THEN <<resource, " with identifier '", identifier, "' not found">>
    ELSE <<resource, " not found">>

\* Faulty variant of NewError: the trace id is always generated.
NewErrorFreshTrace(kind, message, identifier, context, gen) ==
    [ traceId    |-> gen,
      kind       |-> kind,
      identifier |-> identifier,
      message    |-> IF kind = "NotFoundError" THEN notFoundMessage("User", identifier)
                     ELSE IF message = NoMessage THEN defaultMessage(kind)
                     ELSE message,
      code       |-> codeOf(kind),
      statusCode |-> statusCodeOf(kind) ]

\* new <kind>(...): BaseError's constructor after the subclass's super(...).
NewError(kind, message, identifier, context, gen) ==
    [ traceId    |-> IF context.present /\ context.traceId # "" THEN context.traceId
                     ELSE gen,
      kind       |-> kind,
      identifier |-> identifier,
      message    |-> IF kind = "NotFoundError" THEN notFoundMessage("User", identifier)
                     ELSE IF message = NoMessage THEN defaultMessage(kind)
                     ELSE message,
      code       |-> codeOf(kind),
      statusCode |-> statusCodeOf(kind) ]

\* Faulty variant of errorIsRetryable: every server-side (5xx) error and no
\* other is retryable.
errorIsRetryableByStatus(e) == e.statusCode >= 500

\* isRetryable() of each class.
errorIsRetryable(e) ==
    e.kind \in { "RateLimitError", "InternalServerError", "DatabaseError", "NetworkError",
                 "ConcurrencyError", "ResourceExhaustedError", "TimeoutError" }

\* getSeverity() of each class.
getSeverity(e) ==
    CASE e.kind \in {"ValidationError", "DomainValidationError", "NotFoundError"} -> "low"
      [] e.kind \in { "ConflictError", "UnauthorizedError", "ForbiddenError",
                      "RateLimitError", "BusinessRuleError", "ConcurrencyError",
                      "ResourceExhaustedError", "TimeoutError" } -> "medium"
      [] e.kind \in { "InternalServerError", "DatabaseError", "NetworkError",
                      "InvariantViolationError" } -> "high"

getSeverityLevel(severity) ==
    CASE severity = "low" -> "warn"
      [] severity = "medium" -> "error"
      [] severity = "high" -> "error"
      [] severity = "critical" -> "fatal"
      [] OTHER -> "error"

\* Every taxonomy error a caller can construct.
ConstructorArguments ==
    { a \in [ kind : ErrorKinds, identifier : {NoId, "u1"},
              message : Messages \cup {NoMessage} ] :
        /\ a.message = NoMessage
              <=> (a.kind = "NotFoundError" \/ defaultMessage(a.kind) # NoMessage)
        /\ a.identifier # NoId => a.kind = "NotFoundError" }
      \cup [ kind : {"UnauthorizedError", "ForbiddenError", "RateLimitError",
                     "InternalServerError"},
             identifier : {NoId}, message : Messages ]

TaxonomyErrors ==
    { NewError(a.kind, a.message, a.identifier, context, gen) :
        a \in ConstructorArguments, context \in Contexts, gen \in TraceIds }

\* Failures that are not taxonomy errors: an Error, a string, anything else.
RawFailures ==
    {[kind |-> k, message |-> m] : k \in {"Error", "string"}, m \in Messages}
      \cup {[kind |-> "other", message |-> NoMessage]}

transformToBaseError(failure, context, gen) ==
    IF failure.kind \in ErrorKinds THEN failure
    ELSE IF failure.kind = "Error"
    THEN NewError("InternalServerError", failure.message, NoId, context, gen)
    ELSE IF failure.kind = "string"
    THEN NewError("InternalServerError", failure.message, NoId, context, gen)
    ELSE NewError("InternalServerError", <<"An unknown error occurred">>, NoId,
                  context, gen)

\* createErrorResponse(error: ApiError, message, traceId): the envelope keeps
\* the message and the trace id of the ApiError, not its code or details.
createErrorResponse(details, message, traceId) ==
    [ traceId |-> details.traceId,
      error   |-> details.message,
      message |-> IF message # NoMessage THEN message ELSE details.message,
      success |-> FALSE ]

createValidationErrorResponse(traceId) ==
    createErrorResponse([traceId |-> traceId,
                         message |-> <<"Validation failed">>,
                         code |-> "VALIDATION_ERROR"],
                        <<"Validation failed">>, traceId)

createNotFoundResponse(resource, identifier, traceId) ==
    LET message == IF identifier # NoId
                   THEN <<resource, " with identifier '", identifier, "' not found">>
                   ELSE <<resource, " not found">>
    IN createErrorResponse([traceId |-> traceId, message |-> message,
                            code |-> "NOT_FOUND"], message, traceId)

\* createUnauthorizedResponse, createForbiddenResponse, createConflictResponse,
\* createRateLimitResponse and createServerErrorResponse differ in the code.
createCodedResponse(code, message, traceId) ==
    createErrorResponse([traceId |-> traceId, message |-> message, code |-> code],
                        message, traceId)

shouldExposeMessage(e) == e.statusCode >= 400 /\ e.statusCode < 500

errorToResponse(e) ==
    IF IsValidationError(e) THEN createValidationErrorResponse(e.traceId)
    ELSE IF e.kind = "NotFoundError"
    THEN createNotFoundResponse("User", e.identifier, e.traceId)
    ELSE IF e.kind = "UnauthorizedError"
    THEN createCodedResponse("UNAUTHORIZED", e.message, e.traceId)
    ELSE IF e.kind = "ForbiddenError"
    THEN createCodedResponse("FORBIDDEN", e.message, e.traceId)
    ELSE IF e.kind = "ConflictError"
    THEN createCodedResponse("CONFLICT", e.message, e.traceId)
    ELSE IF e.kind = "RateLimitError"
    THEN createCodedResponse("RATE_LIMIT_EXCEEDED", e.message, e.traceId)
    ELSE createCodedResponse("INTERNAL_SERVER_ERROR",
                             IF shouldExposeMessage(e) THEN e.message
                             ELSE GenericMessage,
                             e.traceId)

\* logError: the record written to the console.
logError(e) ==
    [ traceId |-> e.traceId, message |-> e.message, code |-> e.code,
      statusCode |-> e.statusCode, level |-> getSeverityLevel(getSeverity(e)) ]

NoFailure == [kind |-> "none", message |-> NoMessage]
NoResponse == [traceId |-> "", error |-> NoMessage, message |-> NoMessage, success |-> TRUE]
NoLog == [ traceId |-> "", message |-> NoMessage, code |-> "", statusCode |-> 0,
           level |-> "" ]

NotHandled ==
    [ failure |-> NoFailure, error |-> NoFailure, method |-> "none",
      severity |-> "", response |-> NoResponse, logged |-> NoLog,
      retryable |-> FALSE, steps |-> <<>>, httpStatus |-> 0 ]

\* handleError(error, context): the three statements of lines 22-24 in their
\* order; `await logError(...)` completes before errorToResponse is called.
handleError(failure, context, gen) ==
    LET processedError == transformToBaseError(failure, context, gen)
    IN [ failure |-> failure, error |-> processedError, method |-> "handleError",
         severity |-> getSeverity(processedError),
         response |-> errorToResponse(processedError),
         logged |-> logError(processedError),
         retryable |-> errorIsRetryable(processedError),
         steps |-> <<"transformToBaseError", "logError", "errorToResponse">>,
         httpStatus |-> 0 ]

\* toHttpResponse(apiResponse, statusCode?): the status of the Response; 0
\* stands for a statusCode left out.
toHttpResponse(apiResponse, statusCode) ==
    IF statusCode # 0 THEN statusCode
    ELSE IF apiResponse.success THEN 200 ELSE 400

\* handleErrorAsHttpResponse: handleError, then toHttpResponse(apiResponse).
handleErrorAsHttpResponse(failure, context, gen) ==
    [handleError(failure, context, gen) EXCEPT
        !.method = "handleErrorAsHttpResponse",
        !.steps = Append(@, "toHttpResponse"),
        !.httpStatus = toHttpResponse(handleError(failure, context, gen).response, 0)]

ErrorsConstruct ==
    \E e \in TaxonomyErrors :
        /\ handled' = [NotHandled EXCEPT !.error = e, !.method = "construct",
                                         !.retryable = errorIsRetryable(e),
                                         !.severity = getSeverity(e)]
        /\ UNCHANGED <<entityVars, callVars, pair, paging, toolVars>>

ErrorsErrorToResponse ==
    \E e \in TaxonomyErrors :
        /\ handled' = [NotHandled EXCEPT !.error = e, !.method = "errorToResponse",
                                         !.response = errorToResponse(e)]
        /\ UNCHANGED <<entityVars, callVars, pair, paging, toolVars>>

ErrorsHandleError ==
    \E failure \in RawFailures \cup TaxonomyErrors, context \in Contexts,
       gen \in TraceIds :
        /\ handled' = handleError(failure, context, gen)
        /\ UNCHANGED <<entityVars, callVars, pair, paging, toolVars>>

ErrorsHandleErrorAsHttpResponse ==
    \E failure \in RawFailures \cup TaxonomyErrors, context \in Contexts,
       gen \in TraceIds :
        /\ handled' = handleErrorAsHttpResponse(failure, context, gen)
        /\ UNCHANGED <<entityVars, callVars, pair, paging, toolVars>>

\* The code a response envelope carries, if it carries one.
ResponseCode(r) == IF "code" \in DOMAIN r THEN r.code ELSE "absent"

\* C18: handling a failure that is not a taxonomy error (an Error, a string,
\* any other value) with handleError yields a failure response that carries
\* the code INTERNAL_SERVER_ERROR and the generic message and nowhere the
\* original message; the same failure with another message gives a response
\* with the same code and message.
C18_RawFailureIsGeneric ==
    (handled.method = "handleError" /\ handled.failure.kind \notin ErrorKinds)
        => /\ ~handled.response.success
           /\ ResponseCode(handled.response) = "INTERNAL_SERVER_ERROR"
           /\ handled.response.message = GenericMessage
           /\ handled.failure.kind # "other"
                 => /\ handled.response.message # handled.failure.message
                    /\ handled.response.error # handled.failure.message
           /\ \A m \in Messages :
                 /\ errorToResponse(
                        transformToBaseError([handled.failure EXCEPT !.message = m],
                                             NoContext, "t1")).message
                      = handled.response.message
                 /\ ResponseCode(errorToResponse(
                        transformToBaseError([handled.failure EXCEPT !.message = m],
                                             NoContext, "t1")))
                      = ResponseCode(handled.response)

ClientErrorKinds ==
    { "ValidationError", "DomainValidationError", "NotFoundError", "ConflictError",
      "UnauthorizedError", "ForbiddenError", "RateLimitError", "BusinessRuleError",
      "ConcurrencyError", "InvariantViolationError", "ResourceExhaustedError",
      "TimeoutError" }

ServerErrorKinds == {"InternalServerError", "DatabaseError", "NetworkError"}

\* C19: errorToResponse applies the exposure rule to every taxonomy kind: for
\* an error with statusCode in 400..499 (Validation, NotFound, Conflict,
\* Unauthorized, Forbidden, RateLimit, BusinessRule, Concurrency,
\* InvariantViolation, ResourceExhausted, Timeout) the response message is the
\* error's own message verbatim; for an error with statusCode 500 or above
\* (InternalServer, Database, Network) it is the generic phrase and not the
\* error's message.
C19_ExposureRule ==
    handled.method = "errorToResponse"
        => /\ ( \/ handled.error.statusCode \in 400..499
                \/ handled.error.kind \in ClientErrorKinds )
                 => handled.response.message = handled.error.message
           /\ ( \/ handled.error.statusCode >= 500
                \/ handled.error.kind \in ServerErrorKinds )
                 => /\ handled.response.message = GenericMessage
                    /\ handled.error.message # GenericMessage
                          => handled.response.message # handled.error.message

\* The classification table of the specification: statusCode, retryable,
\* severity.
Classification ==
    [ ValidationError         |-> <<400, FALSE, "low">>,
      NotFoundError           |-> <<404, FALSE, "low">>,
      ConflictError           |-> <<409, FALSE, "medium">>,
      UnauthorizedError       |-> <<401, FALSE, "medium">>,
      ForbiddenError          |-> <<403, FALSE, "medium">>,
      RateLimitError          |-> <<429, TRUE, "medium">>,
      InternalServerError     |-> <<500, TRUE, "high">>,
      DatabaseError           |-> <<500, TRUE, "high">>,
      NetworkError            |-> <<503, TRUE, "high">>,
      BusinessRuleError       |-> <<422, FALSE, "medium">>,
      ConcurrencyError        |-> <<409, TRUE, "medium">>,
      InvariantViolationError |-> <<422, FALSE, "high">>,
      ResourceExhaustedError  |-> <<429, TRUE, "medium">>,
      TimeoutError            |-> <<408, TRUE, "medium">> ]

\* C20: each taxonomy error kind has the classification of the
\* specification's table whatever the constructor arguments: Validation
\* 400 / not retryable / low, NotFound 404 / not retryable / low, Conflict
\* 409 / not retryable / medium, Unauthorized 401 and Forbidden 403 / not
\* retryable / medium, RateLimit 429 / retryable / medium, InternalServer and
\* Database 500 / retryable / high, Network 503 / retryable / high,
\* BusinessRule 422 / not retryable / medium, Concurrency 409 / retryable /
\* medium, InvariantViolation 422 / not retryable / high, ResourceExhausted
\* 429 / retryable / medium, Timeout 408 / retryable / medium.
C20_FixedClassification ==
    (handled.method = "construct" /\ handled.error.kind \in DOMAIN Classification)
        => /\ handled.error.statusCode = Classification[handled.error.kind][1]
           /\ handled.retryable = Classification[handled.error.kind][2]
           /\ handled.severity = Classification[handled.error.kind][3]

\* a ConcurrencyError built with a message and a context: 409, retryable
C20_Witness ==
    /\ handled.method = "construct"
    /\ handled.error.kind = "ConcurrencyError"
    /\ handled.error.message = <<"boom">>
    /\ handled.error.traceId = "t1"
    /\ handled.error.statusCode = 409
    /\ handled.retryable

HandlerMethods == {"handleError", "handleErrorAsHttpResponse"}

\* C21: handleError runs transform, then log, then respond, each exactly
\* once per handled failure; a taxonomy error passes through the transform
\* as the same object; the log record's level is warn for low severity, error
\* for medium and high, fatal for critical; and the response envelope
\* {success = false, error code, message, traceId}, produced after the log
\* step, carries the code of the handled error.
C21_TransformLogRespond ==
    handled.method \in HandlerMethods
        => /\ SubSeq(handled.steps, 1, 3)
                 = <<"transformToBaseError", "logError", "errorToResponse">>
           /\ handled.failure.kind \in ErrorKinds => handled.error = handled.failure
           /\ handled.severity = "low" => handled.logged.level = "warn"
           /\ handled.severity \in {"medium", "high"} => handled.logged.level = "error"
           /\ getSeverityLevel("critical") = "fatal"
           /\ ~handled.response.success
           /\ handled.response.traceId = handled.error.traceId
           /\ ResponseCode(handled.response) = handled.error.code

\* C25: the response produced by handleError carries the same traceId as the
\* handled error and as the record written by logError, and a taxonomy error
\* constructed with a context carries that context's traceId.
C25_TraceIdCorrelation ==
    /\ handled.method \in HandlerMethods
          => /\ handled.response.traceId = handled.error.traceId
             /\ handled.logged.traceId = handled.error.traceId
    /\ handled.method = "construct"
          => \A a \in ConstructorArguments, t \in TraceIds, g \in TraceIds :
                NewError(a.kind, a.message, a.identifier,
                         [present |-> TRUE, traceId |-> t], g).traceId = t

\* a raw failure handled with a context: one trace id on error, log and
\* response
C25_Witness ==
    /\ handled.method = "handleError"
    /\ handled.failure.kind = "Error"
    /\ handled.error.traceId = "t1"
    /\ handled.logged.traceId = "t1"
    /\ handled.response.traceId = "t1"
    /\ handled.logged.message = handled.failure.message

\* C26: handleErrorAsHttpResponse returns an HTTP response whose status is
\* the statusCode of the handled error after transformation (404 for
\* NotFound, 409 for Concurrency, 500 for a raw failure).
C26_HttpStatusIsStatusCode ==
    handled.method = "handleErrorAsHttpResponse"
        => handled.httpStatus = handled.error.statusCode


----------------------------------------------------------------------------
(* FilterBuilder, createFilter, andFilters, orFilters: src/lib/query *)

MaxBuilderCalls == 3  \* calls made on one FilterBuilder, build() included
MaxFilters == 2       \* longest argument list of andFilters / orFilters

FilterFields == {"status"}
FilterValues == {"active"}
FilterValueLists == {<<>>, <<"active", "pending">>}

ValueOperators == {"eq", "ne", "gt", "gte", "lt", "lte", "like"}
NullOperators == {"isNull", "isNotNull"}

\* eq, ne, gt, gte, lt, lte, like: this.conditions.push({field, operator, value}).
\* `keys` lists the own properties of the pushed object literal.
ValueMethod(conditions, operator, field, value) ==
    Append(conditions, [ field |-> field, operator |-> operator, value |-> value,
                         values |-> <<>>, keys |-> {"field", "operator", "value"} ])

\* in(field, values): this.conditions.push({field, operator: 'in', values}).
in(conditions, field, vals) ==
    Append(conditions, [ field |-> field, operator |-> "in", value |-> "",
                         values |-> vals, keys |-> {"field", "operator", "values"} ])

\* isNull, isNotNull: this.conditions.push({field, operator}).
NullMethod(conditions, operator, field) ==
    Append(conditions, [ field |-> field, operator |-> operator, value |-> "",
                         values |-> <<>>, keys |-> {"field", "operator"} ])

\* new FilterBuilder(): `private conditions: FilterCondition[] = []`.
\* called: the condition-method calls made so far, with their arguments;
\* returned: the objects build() has returned, each with what it held when
\* it was returned; last: the method called last.
NewBuilder == [conditions |-> <<>>, called |-> <<>>, returned |-> <<>>, last |-> "new"]

\* Faulty variant of build: the criteria is returned with logic 'OR'.
buildOr(b) ==
    [ logic |-> "OR", hasGroups |-> FALSE, conditionsOf |-> "this",
      atBuild |-> b.conditions, calledAtBuild |-> b.called ]

\* build(): `return { conditions: this.conditions, logic: 'AND' }`.  The
\* object's conditions property is the builder's own array (conditionsOf
\* "this"), not a copy of it; the object has no groups property.
build(b) ==
    [ logic |-> "AND", hasGroups |-> FALSE, conditionsOf |-> "this",
      atBuild |-> b.conditions, calledAtBuild |-> b.called ]

\* The criteria a returned object is when read in builder state b.
Criteria(b, r) ==
    [ present |-> TRUE, hasConditions |-> TRUE, conditions |-> b.conditions,
      logic |-> r.logic, hasGroups |-> r.hasGroups, groups |-> <<>> ]

\* andFilters(...filters): `return { groups: filters, logic: 'AND' }`.
andFilters(filters) ==
    [ present |-> TRUE, hasConditions |-> FALSE, conditions |-> <<>>,
      logic |-> "AND", hasGroups |-> TRUE, groups |-> filters ]

\* orFilters(...filters): `return { groups: filters, logic: 'OR' }`.
orFilters(filters) ==
    [ present |-> TRUE, hasConditions |-> FALSE, conditions |-> <<>>,
      logic |-> "OR", hasGroups |-> TRUE, groups |-> filters ]

NoCombined == [method |-> "none", filters |-> <<>>, result |-> AbsentCriteria]

BuilderCalls == Len(builder.called) + Len(builder.returned)

BuilderCalled(method, field, value, vals, conditions) ==
    /\ builder' = [builder EXCEPT
                      !.conditions = conditions,
                      !.called = Append(@, [ field |-> field, value |-> value,
                                             method |-> method, values |-> vals ]),
                      !.last = method]
    /\ combined' = NoCombined
    /\ UNCHANGED <<coreVars, retrying, listing, manager>>

BuilderValueMethod ==
    \E operator \in ValueOperators, field \in FilterFields, value \in FilterValues :
        /\ BuilderCalls < MaxBuilderCalls
        /\ BuilderCalled(operator, field, value, <<>>,
                         ValueMethod(builder.conditions, operator, field, value))

BuilderIn ==
    \E field \in FilterFields, vals \in FilterValueLists :
        /\ BuilderCalls < MaxBuilderCalls
        /\ BuilderCalled("in", field, "", vals, in(builder.conditions, field, vals))

BuilderNullMethod ==
    \E operator \in NullOperators, field \in FilterFields :
        /\ BuilderCalls < MaxBuilderCalls
        /\ BuilderCalled(operator, field, "", <<>>,
                         NullMethod(builder.conditions, operator, field))

BuilderBuild ==
    /\ BuilderCalls < MaxBuilderCalls
    /\ builder' = [builder EXCEPT !.returned = Append(@, build(builder)),
                                  !.last = "build"]
    /\ combined' = NoCombined
    /\ UNCHANGED <<coreVars, retrying, listing, manager>>

\* A criteria built by another builder: createFilter().isNotNull('deletedAt').build()
OtherBuilt ==
    [ present |-> TRUE, hasConditions |-> TRUE,
      conditions |-> NullMethod(<<>>, "isNotNull", "deletedAt"),
      logic |-> "AND", hasGroups |-> FALSE, groups |-> <<>> ]

\* The criteria at hand when andFilters / orFilters is called.
AvailableFilters ==
    {OtherBuilt} \cup {Criteria(builder, builder.returned[i]) : i \in 1..Len(builder.returned)}

FilterLists == UNION {[1..n -> AvailableFilters] : n \in 0..MaxFilters}

FiltersAnd ==
    \E filters \in FilterLists :
        /\ combined' = [method |-> "andFilters", filters |-> filters,
                        result |-> andFilters(filters)]
        /\ UNCHANGED <<coreVars, builder, retrying, listing, manager>>

FiltersOr ==
    \E filters \in FilterLists :
        /\ combined' = [method |-> "orFilters", filters |-> filters,
                        result |-> orFilters(filters)]
        /\ UNCHANGED <<coreVars, builder, retrying, listing, manager>>

\* The condition a call asks for: the called method as operator, with the
\* arguments it was given.
CalledCondition(c) ==
    [ field |-> c.field, operator |-> c.method, value |-> c.value, values |-> c.values,
      keys |-> IF c.method = "in" THEN {"field", "operator", "values"}
               ELSE IF c.method \in NullOperators THEN {"field", "operator"}
               ELSE {"field", "operator", "value"} ]

\* C22: whatever condition methods were called on a builder, the criteria
\* build() returns holds exactly the called conditions, in call order, has
\* logic 'AND' and no groups; andFilters / orFilters return a criteria whose
\* groups are the given criteria in the given order, with logic AND resp. OR
\* and without conditions of its own.
C22_BuilderAndCombinators ==
    /\ \A i \in 1..Len(builder.returned) :
          LET r == builder.returned[i] IN
            /\ r.atBuild = [k \in 1..Len(r.calledAtBuild) |->
                                CalledCondition(r.calledAtBuild[k])]
            /\ r.logic = "AND"
            /\ ~r.hasGroups
    /\ combined.method \in {"andFilters", "orFilters"} =>
          /\ combined.result.hasGroups
          /\ combined.result.groups = combined.filters
          /\ combined.result.logic = (IF combined.method = "andFilters" THEN "AND" ELSE "OR")
          /\ ~combined.result.hasConditions

C22_Witness ==
    /\ combined.method = "orFilters"
    /\ Len(combined.filters) = 2
    /\ combined.filters[1] # combined.filters[2]
    /\ \E i \in 1..Len(builder.returned) :
          /\ Len(builder.returned[i].calledAtBuild) = 2
          /\ builder.returned[i].calledAtBuild[1].method = "in"
          /\ builder.returned[i].calledAtBuild[2].method = "isNull"

\* C27: the criteria build() returned is a finished value: no later call on
\* the builder changes the conditions of a criteria already returned, and
\* build() leaves the builder as it was.
C27_BuiltCriteriaIsFinished ==
    [][ /\ \A i \in 1..Len(builder.returned) :
             Criteria(builder', builder.returned[i]).conditions
                 = Criteria(builder, builder.returned[i]).conditions
        /\ builder'.last = "build" /\ builder' # builder =>
             /\ builder'.conditions = builder.conditions
             /\ builder'.called = builder.called ]_vars

----------------------------------------------------------------------------
(* retry(fn, options): src/lib/utils/helpers.ts *)

MaxAttempts == 3      \* largest maxAttempts a caller passes

DefaultMaxAttempts == 3
DefaultDelay == 1000
DefaultBackoffFactor == 2

RetryFailures == {"ConcurrencyError", "NotFoundError"}

\* The options a caller passes; `given` holds the keys that are present.  A
\* shouldRetry predicate is the set of failures it answers true for.
RetryOptionKeys == {"maxAttempts", "delay", "backoffFactor", "shouldRetry"}
RetryOptions ==
    [ maxAttempts : 0..MaxAttempts, delay : {0, 100}, backoffFactor : {1, 3},
      shouldRetry : {{}, {"ConcurrencyError"}}, given : SUBSET RetryOptionKeys ]

\* const { maxAttempts = 3, delay = 1000, backoffFactor = 2,
\*         shouldRetry = () => true } = options
Destructured(options) ==
    [ maxAttempts |-> IF "maxAttempts" \in options.given THEN options.maxAttempts
                      ELSE DefaultMaxAttempts,
      delay |-> IF "delay" \in options.given THEN options.delay ELSE DefaultDelay,
      backoffFactor |-> IF "backoffFactor" \in options.given THEN options.backoffFactor
                        ELSE DefaultBackoffFactor,
      shouldRetry |-> IF "shouldRetry" \in options.given THEN options.shouldRetry
                      ELSE RetryFailures ]

\* pc: where the call is ("idle": none in progress; "loop": at the loop
\* test; "sleep": awaiting sleep(waitTime); "returned" / "thrown": settled).
\* outcomes: what each invocation of fn settled with, in order; slept: the
\* wait times slept so far; returnedValue: the number of the invocation whose
\* value was returned; thrown: the failure the call rejected with.
NotRetrying ==
    [ locals |-> Destructured([ maxAttempts |-> 0, delay |-> 0, backoffFactor |-> 1,
                                shouldRetry |-> {}, given |-> {} ]),
      pc |-> "idle", attempt |-> 0, lastError |-> "undefined",
      outcomes |-> <<>>, slept |-> <<>>, returnedValue |-> 0, thrown |-> NoError ]

\* Math.pow(base, exponent) for a natural exponent
RECURSIVE Pow(_, _)
Pow(base, exponent) == IF exponent = 0 THEN 1 ELSE base * Pow(base, exponent - 1)

\* Faulty variant of waitTime: the exponent is the attempt number.
waitTimeLate(delay, backoffFactor, attempt) == delay * Pow(backoffFactor, attempt)

\* const waitTime = delay * Math.pow(backoffFactor, attempt - 1)
waitTime(delay, backoffFactor, attempt) == delay * Pow(backoffFactor, attempt - 1)

\* retry(fn, options) is called: the locals are set, `attempt = 1`.
RetryCall ==
    \E options \in RetryOptions :
        /\ retrying.pc = "idle"
        /\ retrying' = [NotRetrying EXCEPT !.locals = Destructured(options),
                                           !.pc = "loop", !.attempt = 1]
        /\ UNCHANGED <<coreVars, filterVars, listing, manager>>

\* `attempt <= maxAttempts` is false: the loop is left, `throw lastError`.
RetryExhausted ==
    /\ retrying.pc = "loop"
    /\ ~(retrying.attempt <= retrying.locals.maxAttempts)
    /\ retrying' = [retrying EXCEPT !.pc = "thrown", !.thrown = retrying.lastError]
    /\ UNCHANGED <<coreVars, filterVars, listing, manager>>

\* One pass of the loop body up to its first suspension or exit: `await fn()`
\* settles; a value is returned; a failure is re-thrown when this was the
\* last attempt or shouldRetry refuses it; otherwise sleep(waitTime) starts.
RetryAttempt ==
    \E outcome \in {OK} \cup RetryFailures :
        /\ retrying.pc = "loop"
        /\ retrying.attempt <= retrying.locals.maxAttempts
        /\ retrying' =
              LET r == [retrying EXCEPT !.outcomes = Append(@, outcome)] IN
              IF outcome = OK
              THEN [r EXCEPT !.pc = "returned", !.returnedValue = retrying.attempt]
              ELSE IF \/ retrying.attempt = retrying.locals.maxAttempts
                      \/ outcome \notin retrying.locals.shouldRetry
              THEN [r EXCEPT !.lastError = outcome, !.pc = "thrown", !.thrown = outcome]
              ELSE [r EXCEPT !.lastError = outcome, !.pc = "sleep",
                             !.slept = Append(@, waitTime(retrying.locals.delay,
                                                          retrying.locals.backoffFactor,
                                                          retrying.attempt))]
        /\ UNCHANGED <<coreVars, filterVars, listing, manager>>

\* sleep(waitTime) resolves: `attempt++`, back to the loop test.
RetrySlept ==
    /\ retrying.pc = "sleep"
    /\ retrying' = [retrying EXCEPT !.pc = "loop", !.attempt = @ + 1]
    /\ UNCHANGED <<coreVars, filterVars, listing, manager>>

\* The caller has taken the outcome of the call.
RetrySettled ==
    /\ retrying.pc \in {"returned", "thrown"}
    /\ retrying' = NotRetrying
    /\ UNCHANGED <<coreVars, filterVars, listing, manager>>

\* The invocations of fn that failed, and the first one that succeeded.
FailedAttempts == {k \in DOMAIN retrying.outcomes : retrying.outcomes[k] # OK}
Settled == retrying.pc \in {"returned", "thrown"}

\* What holds of a call with maxAttempts >= 1 at every moment.
RetryBounded ==
    retrying.locals.maxAttempts >= 1 =>
        /\ Len(retrying.outcomes) <= retrying.locals.maxAttempts
        /\ \A k \in DOMAIN retrying.outcomes :
              retrying.outcomes[k] = OK =>
                  /\ k = Len(retrying.outcomes)
                  /\ retrying.pc = "returned"
                  /\ retrying.returnedValue = k
        /\ retrying.pc = "returned" =>
              /\ retrying.outcomes # <<>>
              /\ retrying.outcomes[Len(retrying.outcomes)] = OK
        /\ \A k \in FailedAttempts :
              (k = retrying.locals.maxAttempts
                  \/ retrying.outcomes[k] \notin retrying.locals.shouldRetry) =>
                  /\ k = Len(retrying.outcomes)
                  /\ retrying.pc = "thrown"
                  /\ retrying.thrown = retrying.outcomes[k]
                  /\ Len(retrying.slept) = k - 1
        /\ \A k \in DOMAIN retrying.outcomes :
              k > 1 => /\ Len(retrying.slept) >= k - 1
                       /\ retrying.slept[k - 1]
                            = retrying.locals.delay
                                * Pow(retrying.locals.backoffFactor, k - 2)
        /\ Len(retrying.slept) <= Len(retrying.outcomes)

\* C24: retry(fn, {maxAttempts, shouldRetry}) with maxAttempts >= 1 invokes fn
\* at most maxAttempts times and terminates: it returns the value of the
\* first successful attempt and makes no further attempt; it re-throws the
\* failure of an attempt at once, without sleeping, when that attempt is the
\* maxAttempts-th or shouldRetry refuses the failure; and before attempt k+1
\* it has waited delay * backoffFactor^(k-1).
C24_RetryBoundedAndTerminates ==
    /\ []RetryBounded
    /\ (retrying.pc = "loop" /\ retrying.locals.maxAttempts >= 1) ~> Settled

C24_Witness ==
    /\ retrying.pc = "returned"
    /\ retrying.locals.maxAttempts = 3
    /\ retrying.locals.backoffFactor = 3
    /\ retrying.locals.delay = 100
    /\ retrying.outcomes = <<"ConcurrencyError", "ConcurrencyError", OK>>
    /\ retrying.slept = <<100, 300>>

----------------------------------------------------------------------------
(* list() beside concurrent writers: src/lib/base/repository.ts 156-180 *)

MaxWrites == 2        \* creates and deletes committed beside the list() calls

RowIds == {"e1", "e2"}

\* stored: the ids of the rows in the storage; writes: creates and deletes
\* committed so far; pc: "idle", "pending" (both primitives were started and
\* Promise.all is awaited) or "returned"; foundRows / countedTotal: what
\* executeFindMany / executeCount read, once findDone / countDone; seen: the
\* states the storage went through while the call was pending; listed: the
\* PaginatedResult returned.
NotListing(rows, n) ==
    [ pc |-> "idle", stored |-> rows, writes |-> n, findDone |-> FALSE,
      foundRows |-> {}, countDone |-> FALSE, countedTotal |-> 0, seen |-> {},
      listed |-> [data |-> {}, pagination |-> NoPagination] ]

\* list({}) is called: page 1, limit 10, no filter; executeFindMany and
\* executeCount are both started before the await.
ListingList ==
    /\ listing.pc = "idle"
    /\ listing' = [listing EXCEPT !.pc = "pending", !.seen = {listing.stored}]
    /\ UNCHANGED <<coreVars, filterVars, retrying, manager>>

\* The storage answers executeFindMany from its rows of this moment.
ListingFindMany ==
    /\ listing.pc = "pending"
    /\ ~listing.findDone
    /\ listing' = [listing EXCEPT !.findDone = TRUE, !.foundRows = listing.stored]
    /\ UNCHANGED <<coreVars, filterVars, retrying, manager>>

\* The storage answers executeCount from its rows of this moment.
ListingCount ==
    /\ listing.pc = "pending"
    /\ ~listing.countDone
    /\ listing' = [listing EXCEPT !.countDone = TRUE,
                                  !.countedTotal = Cardinality(listing.stored)]
    /\ UNCHANGED <<coreVars, filterVars, retrying, manager>>

\* Promise.all resolved: the result is assembled from entities and total.
ListingReturn ==
    /\ listing.pc = "pending"
    /\ listing.findDone
    /\ listing.countDone
    /\ listing' =
          [listing EXCEPT
             !.pc = "returned",
             !.listed =
                [ data |-> listing.foundRows,
                  pagination |->
                    [ page |-> DefaultPage, limit |-> DefaultLimit,
                      total |-> listing.countedTotal,
                      hasNext |-> DefaultPage < CeilDiv(listing.countedTotal, DefaultLimit),
                      hasPrev |-> DefaultPage > 1 ] ]]
    /\ UNCHANGED <<coreVars, filterVars, retrying, manager>>

\* The storage went from its state to rows by a committed write.
Written(rows) ==
    listing' = [listing EXCEPT
                  !.stored = rows,
                  !.writes = @ + 1,
                  !.seen = IF listing.pc = "pending" THEN @ \cup {rows} ELSE @]

\* A concurrent create(): executeCreate commits a new row.
ListingCreate ==
    \E id \in RowIds \ listing.stored :
        /\ listing.writes < MaxWrites
        /\ Written(listing.stored \cup {id})
        /\ UNCHANGED <<coreVars, filterVars, retrying, manager>>

\* A concurrent delete(): executeDelete / executeSoftDelete commits; the row
\* no longer matches the filter of list().
ListingDelete ==
    \E id \in listing.stored :
        /\ listing.writes < MaxWrites
        /\ Written(listing.stored \ {id})
        /\ UNCHANGED <<coreVars, filterVars, retrying, manager>>

\* The caller has taken the page.
ListingSettled ==
    /\ listing.pc = "returned"
    /\ listing' = NotListing(listing.stored, listing.writes)
    /\ UNCHANGED <<coreVars, filterVars, retrying, manager>>

\* C28: when list() runs beside concurrent create or delete operations on the
\* same storage, the pagination.total and the data it returns correspond to
\* one and the same state of the storage: some state the storage was in
\* during the call has exactly the returned rows and the returned total.
C28_ListReadsOneState ==
    listing.pc = "returned" =>
        \E rows \in listing.seen :
            /\ listing.listed.data = rows
            /\ listing.listed.pagination.total = Cardinality(rows)

----------------------------------------------------------------------------
(* MigrationManager: src/lib/database (migrations) *)

MaxMigrations == 2    \* migrations registered with one manager
MaxTimestamp == 2     \* migration timestamps 1..MaxTimestamp

NoMigration == 0
MigrationIds == 1..MaxMigrations

\* new MigrationManager(adapter) on a database without a _migrations table.
\* migrations: the Map, in insertion order; created: the _migrations table
\* exists; table: its rows in the order of their appliedAt; effective: the
\* migrations whose up statements are in effect in the schema; failed: the
\* migrations whose last execution failed.  Of the call made last: method;
\* pending: what getPendingMigrations returned (to the caller or to
\* migrate()); failing: the migrations whose up statements fail in this
\* call; attempted: the migrations executeMigration was called with, in
\* order; threw: the migration whose failure the call re-threw; selected:
\* the row rollback() took as lastApplied.
NoRow == [id |-> NoMigration, success |-> FALSE]

NewManager ==
    [ method |-> "none", failed |-> {}, pending |-> <<>>, migrations |-> <<>>,
      created |-> FALSE, table |-> <<>>, effective |-> {}, failing |-> {},
      attempted |-> <<>>, threw |-> NoMigration, selected |-> NoRow ]

\* The fields that describe the last call, cleared.
Called(mg, name) ==
    [mg EXCEPT !.method = name, !.pending = <<>>, !.failing = {},
               !.attempted = <<>>, !.threw = NoMigration, !.selected = NoRow]

\* register(migration): this.migrations.set(migration.id, migration)
register(mg, migration) ==
    [mg EXCEPT !.migrations = Append(@, migration)]

\* Array.prototype.sort with (a, b) => a.timestamp - b.timestamp: stable.
RECURSIVE SortedInsert(_, _)
SortedInsert(sorted, m) ==
    IF sorted = <<>> THEN <<m>>
    ELSE IF sorted[Len(sorted)].timestamp <= m.timestamp THEN Append(sorted, m)
    ELSE Append(SortedInsert(SubSeq(sorted, 1, Len(sorted) - 1), m), sorted[Len(sorted)])

RECURSIVE SortByTimestamp(_)
SortByTimestamp(ms) ==
    IF ms = <<>> THEN <<>>
    ELSE SortedInsert(SortByTimestamp(SubSeq(ms, 1, Len(ms) - 1)), ms[Len(ms)])

\* Faulty variant of getMigrations: the migrations in registration order.
getMigrationsUnsorted(mg) == mg.migrations

\* getMigrations(): the registered migrations sorted by timestamp.
getMigrations(mg) == SortByTimestamp(mg.migrations)

\* getAppliedMigrations(): every row of _migrations, `SELECT *` without a
\* condition on success; [] when the table does not exist.
getAppliedMigrations(mg) == IF mg.created THEN mg.table ELSE <<>>

\* getPendingMigrations(): the migrations whose id has no row.
getPendingMigrations(mg) ==
    LET appliedIds == {getAppliedMigrations(mg)[i].id
                         : i \in DOMAIN getAppliedMigrations(mg)}
        NotApplied(migration) == migration.id \notin appliedIds
    IN SelectSeq(getMigrations(mg), NotApplied)

\* executeMigration(migration): the up statements and the success row commit
\* in one transaction; when a statement fails nothing of it is kept, a row
\* with success = false is inserted (recorded: that insert succeeds) and the
\* failure is re-thrown.
executeMigration(mg, migration, recorded) ==
    IF migration.id \notin mg.failing
    THEN [mg EXCEPT !.failed = @ \ {migration.id},
                    !.table = Append(@, [id |-> migration.id, success |-> TRUE]),
                    !.effective = @ \cup {migration.id},
                    !.attempted = Append(@, migration.id)]
    ELSE [mg EXCEPT !.failed = @ \cup {migration.id},
                    !.table = IF recorded
                              THEN Append(@, [id |-> migration.id, success |-> FALSE])
                              ELSE @,
                    !.attempted = Append(@, migration.id),
                    !.threw = migration.id]

\* for (const migration of pending) { await this.executeMigration(migration) }
RECURSIVE ExecuteEach(_, _, _)
ExecuteEach(mg, i, recorded) ==
    IF i > Len(mg.pending) \/ mg.threw # NoMigration THEN mg
    ELSE ExecuteEach(executeMigration(mg, mg.pending[i], recorded), i + 1, recorded)

\* migrate(): ensureMigrationsTable, getPendingMigrations, the loop.
migrate(mg, failing, recorded) ==
    LET ensured == [Called(mg, "migrate") EXCEPT !.created = TRUE, !.failing = failing]
    IN ExecuteEach([ensured EXCEPT !.pending = getPendingMigrations(ensured)],
                   1, recorded)

\* rollbackMigration(migration): the down statements and the DELETE of the
\* row commit in one transaction, or the failure is thrown.
rollbackMigration(mg, id, downFails) ==
    IF downFails THEN [mg EXCEPT !.threw = id]
    ELSE [mg EXCEPT !.table = SelectSeq(@, LAMBDA row : row.id # id),
                    !.effective = @ \ {id}]

\* rollback(): the last row of getAppliedMigrations() is rolled back.
rollback(mg, downFails) ==
    LET applied == getAppliedMigrations(mg)
        called == Called(mg, "rollback")
    IN IF Len(applied) = 0 THEN called
       ELSE rollbackMigration([called EXCEPT !.selected = applied[Len(applied)]],
                              applied[Len(applied)].id, downFails)

ManagerRegister ==
    \E id \in MigrationIds, timestamp \in 1..MaxTimestamp :
        /\ \A i \in DOMAIN manager.migrations : manager.migrations[i].id # id
        /\ manager' = register(Called(manager, "register"),
                               [id |-> id, timestamp |-> timestamp])
        /\ UNCHANGED <<coreVars, filterVars, retrying, listing>>

ManagerGetPendingMigrations ==
    /\ manager.migrations # <<>>
    /\ manager' = [Called(manager, "getPendingMigrations")
                      EXCEPT !.pending = getPendingMigrations(manager)]
    /\ UNCHANGED <<coreVars, filterVars, retrying, listing>>

ManagerMigrate ==
    \E failing \in SUBSET MigrationIds, recorded \in BOOLEAN :
        /\ failing = {} => recorded
        /\ manager' = migrate(manager, failing, recorded)
        /\ UNCHANGED <<coreVars, filterVars, retrying, listing>>

ManagerRollback ==
    \E downFails \in BOOLEAN :
        /\ manager.created
        /\ manager' = rollback(manager, downFails)
        /\ UNCHANGED <<coreVars, filterVars, retrying, listing>>

\* C29: migrate() executes the pending migrations one at a time, in ascending
\* timestamp order, and stops at the first failing one: every migration
\* before it was executed and succeeded, its failure is re-thrown, and no
\* later migration is executed in that run; without a failure all pending
\* migrations are executed.
C29_MigrateInOrderStopsAtFailure ==
    manager.method = "migrate" =>
        LET pending == manager.pending
            done == manager.attempted
            FailingAt == {i \in DOMAIN pending : pending[i].id \in manager.failing}
        IN /\ Len(done) <= Len(pending)
           /\ \A i \in DOMAIN done : done[i] = pending[i].id
           /\ \A i, j \in DOMAIN pending :
                 i < j => pending[i].timestamp <= pending[j].timestamp
           /\ FailingAt = {} => manager.threw = NoMigration /\ Len(done) = Len(pending)
           /\ \A i \in FailingAt :
                 (\A j \in FailingAt : i <= j) =>
                     /\ Len(done) = i
                     /\ manager.threw = pending[i].id
                     /\ \A j \in 1..(i - 1) : pending[j].id \in manager.effective

C29_Witness ==
    /\ manager.method = "migrate"
    /\ Len(manager.pending) = 2
    /\ manager.migrations[1].id = manager.pending[2].id
    /\ manager.pending[1].timestamp < manager.pending[2].timestamp
    /\ manager.threw = manager.pending[1].id
    /\ manager.attempted = <<manager.pending[1].id>>
    /\ manager.pending[2].id \notin manager.effective

\* C30: a registered migration whose execution failed is still pending:
\* getPendingMigrations() reports it, a later migrate() attempts it again
\* (unless that run stops at an earlier failure), and rollback() selects only
\* a migration that was applied successfully.
C30_FailedMigrationStaysPending ==
    /\ [](/\ \A id \in manager.failed :
               \E i \in DOMAIN getPendingMigrations(manager) :
                   getPendingMigrations(manager)[i].id = id
          /\ (manager.method = "rollback" /\ manager.selected # NoRow)
                => manager.selected.success)
    /\ [][manager'.method = "migrate" =>
            \A id \in manager.failed :
                \/ \E i \in DOMAIN manager'.attempted : manager'.attempted[i] = id
                \/ manager'.threw # NoMigration]_vars

----------------------------------------------------------------------------
(* Specifications *)

\* The Entity instance of SpecEntity: any constructor argument.
Constructed ==
    /\ now \in Times
    /\ \E data \in ConstructorData, nano \in GeneratedIds :
          /\ entity = NewEntity(data, nano, now, now)
          /\ explicitVersion = (data.version # 0)
    /\ nMut = 0
    /\ hist = <<>>

\* The Entity instance is not exercised under Spec: `new Entity()` at time 1.
IdleEntity ==
    /\ now = 1
    /\ entity = NewEntity([ id |-> NoId, createdAt |-> Undefined, updatedAt |-> Undefined,
                            createdBy |-> NoId, updatedBy |-> NoId, version |-> 0,
                            deletedAt |-> Undefined, hasMetadata |-> FALSE,
                            metadata |-> EmptyMeta ], "n1", 1, 1)
    /\ explicitVersion = FALSE
    /\ nMut = 0
    /\ hist = <<>>

\* The repository/service pair is not exercised under SpecEntity: defaults of
\* the two constructors.
IdleCall ==
    /\ config = WithSwitches([softDelete |-> TRUE, validation |-> TRUE, retries |-> 0],
                             DefaultSwitches)
    /\ call = NoCall
    /\ run = Begin

\* No clone is made under the other specifications.
IdlePair ==
    pair = NewPair([ id |-> NoId, createdAt |-> Undefined, updatedAt |-> Undefined,
                     createdBy |-> NoId, updatedBy |-> NoId, version |-> 0,
                     deletedAt |-> Undefined, hasMetadata |-> FALSE,
                     metadata |-> EmptyMeta ], "n1")

\* No helper is called under the other specifications.
IdleHelpers ==
    /\ paging = NoPaging
    /\ handled = NotHandled

\* A builder nothing was called on; no combinator called.
IdleFilters ==
    /\ builder = NewBuilder
    /\ combined = NoCombined

\* retry is not called.
IdleRetry == retrying = NotRetrying

\* list() is not called beside writers; the storage is empty.
IdleListing == listing = NotListing({}, 0)

\* No migration is registered or run.
IdleManager == manager = NewManager

IdleTools == IdleFilters /\ IdleRetry /\ IdleListing /\ IdleManager

Init == IdleEntity /\ InitCall /\ IdlePair /\ IdleHelpers /\ IdleTools

Next ==
    \/ RepositoryCreate
    \/ RepositoryFindById
    \/ RepositoryFindMany
    \/ RepositoryUpdate
    \/ RepositoryDelete
    \/ RepositoryCount
    \/ RepositoryExists
    \/ RepositoryList
    \/ RepositorySearch
    \/ ServiceCreate
    \/ ServiceFindById
    \/ ServiceUpdate
    \/ ServiceDelete
    \/ ServiceList
    \/ ServiceSearch
    \/ Settle

Spec == Init /\ [][Next]_vars

NextEntity ==
    \/ EntitySoftDelete
    \/ EntityRestore
    \/ EntityMarkAsUpdated
    \/ EntityAddMetadata
    \/ EntityRemoveMetadata

InitEntity == Constructed /\ IdleCall /\ IdlePair /\ IdleHelpers /\ IdleTools

SpecEntity == InitEntity /\ [][NextEntity]_vars

PairConstructed ==
    \E data \in CloneData, nano \in GeneratedIds : pair = NewPair(data, nano)

NextClone ==
    \/ PairClone
    \/ PairSoftDelete
    \/ PairRestore
    \/ PairMarkAsUpdated
    \/ PairAddMetadata
    \/ PairRemoveMetadata

NextPaging ==
    \/ PagingCreatePagination
    \/ PagingGetPaginationMeta
    \/ PagingList
    \/ PagingValidatePagination
    \/ PagingCreateCursorPagination

InitPaging == IdleEntity /\ IdleCall /\ IdlePair /\ IdleHelpers /\ IdleTools

SpecPaging == InitPaging /\ [][NextPaging]_vars

NextErrors ==
    \/ ErrorsConstruct
    \/ ErrorsErrorToResponse
    \/ ErrorsHandleError
    \/ ErrorsHandleErrorAsHttpResponse

InitErrors == IdleEntity /\ IdleCall /\ IdlePair /\ IdleHelpers /\ IdleTools

SpecErrors == InitErrors /\ [][NextErrors]_vars

NextFilters ==
    \/ BuilderValueMethod
    \/ BuilderIn
    \/ BuilderNullMethod
    \/ BuilderBuild
    \/ FiltersAnd
    \/ FiltersOr

InitFilters == IdleEntity /\ IdleCall /\ IdlePair /\ IdleHelpers /\ IdleTools

SpecFilters == InitFilters /\ [][NextFilters]_vars

NextRetry ==
    \/ RetryCall
    \/ RetryExhausted
    \/ RetryAttempt
    \/ RetrySlept
    \/ RetrySettled

InitRetry == IdleEntity /\ IdleCall /\ IdlePair /\ IdleHelpers /\ IdleTools

\* Every invocation of fn settles and every sleep resolves.
SpecRetry ==
    /\ InitRetry
    /\ [][NextRetry]_vars
    /\ WF_vars(RetryExhausted)
    /\ WF_vars(RetryAttempt)
    /\ WF_vars(RetrySlept)

NextListing ==
    \/ ListingList
    \/ ListingFindMany
    \/ ListingCount
    \/ ListingReturn
    \/ ListingCreate
    \/ ListingDelete
    \/ ListingSettled

InitListing ==
    /\ IdleEntity /\ IdleCall /\ IdlePair /\ IdleHelpers /\ IdleFilters /\ IdleRetry
    /\ IdleManager
    /\ \E rows \in SUBSET RowIds : listing = NotListing(rows, 0)

SpecListing == InitListing /\ [][NextListing]_vars

NextManager ==
    \/ ManagerRegister
    \/ ManagerGetPendingMigrations
    \/ ManagerMigrate
    \/ ManagerRollback

InitManager == IdleEntity /\ IdleCall /\ IdlePair /\ IdleHelpers /\ IdleTools

SpecManager == InitManager /\ [][NextManager]_vars

InitClone == IdleEntity /\ IdleCall /\ PairConstructed /\ IdleHelpers /\ IdleTools

SpecClone == InitClone /\ [][NextClone]_vars

====
